---------------------------- MODULE Spec2Model ----------------------------
(***************************************************************************)
(* A model of YAX.Math: the scalar helpers (MathHelper), Vector2, Vector3, *)
(* Vector4, Quaternion and Matrix.                                         *)
(*                                                                         *)
(* Numbers.  A float is modelled as a pair <<n, d>>: the rational n/d in   *)
(* lowest terms with d > 0, or one of the IEEE special values, written     *)
(* with d = 0: <<1, 0>> is +infinity, <<-1, 0>> is -infinity and <<0, 0>>  *)
(* is NaN.  Arithmetic on the pairs is exact, so the model agrees with the *)
(* float arithmetic of the code wherever every intermediate result is      *)
(* exactly representable (small integers, halves, quarters), which is the  *)
(* case for every input drawn below.  Zero carries no sign.                *)
(*                                                                         *)
(* Program state.  The library is a set of functions over value types; the *)
(* state is the caller's: the operands it holds, the objects a compound    *)
(* assignment or an output parameter writes, and the value or exception    *)
(* the last call produced.                                                 *)
(***************************************************************************)
EXTENDS Integers, Sequences, FiniteSets, TLC

VARIABLES
    op,       \* the library call that has been made ("none" before it)
    vecA,     \* first vector operand; the object of a compound assignment
    vecB,     \* second vector operand
    vecC,     \* third vector operand
    quatA,    \* first quaternion operand
    quatB,    \* second quaternion operand
    mat,      \* matrix operand
    num,      \* scalar operands, a record
    out,      \* the value the call returned
    err,      \* the message of the exception the call threw ("" if none)
    scale,    \* Decompose's output parameter s
    rot,      \* Decompose's output parameter r
    trans     \* Decompose's output parameter t

vars == <<op, vecA, vecB, vecC, quatA, quatB, mat, num, out, err, scale, rot, trans>>

-----------------------------------------------------------------------------
(* Bounds of the model. *)

\* vector and quaternion components are drawn from -MaxCoord .. MaxCoord
MaxCoord == 1

\* bits of the significand to which a float operation is rounded where the
\* model rounds (MathHelper::Lerp and the Lerp functions built like it); the
\* 24 bits of float are scaled down
MantissaBits == 4

\* angles are drawn from the quarters between -MaxAngle/4 and MaxAngle/4
MaxAngle == 60

-----------------------------------------------------------------------------
(* Float arithmetic. *)

Abs(x) == IF x < 0 THEN -x ELSE x

Sgn(x) == IF x > 0 THEN 1 ELSE IF x < 0 THEN -1 ELSE 0

RECURSIVE GCD(_, _)
GCD(a, b) == IF b = 0 THEN a ELSE GCD(b, a % b)

\* n/d in canonical form
\* the factor two integers share, 1 when both are zero: dividing both by it
\* before a product keeps the product small
CommonFactor(x, y) ==
    LET g == GCD(Abs(x), Abs(y)) IN IF g = 0 THEN 1 ELSE g

Norm(n, d) ==
    IF d = 0 THEN <<Sgn(n), 0>>
    ELSE LET g == GCD(Abs(n), Abs(d))
             s == IF d < 0 THEN -1 ELSE 1
         IN  <<(s * n) \div g, (s * d) \div g>>

F(n) == <<n, 1>>
NaN == <<0, 0>>
PosInf == <<1, 0>>
NegInf == <<-1, 0>>

FIsNaN(a) == a[1] = 0 /\ a[2] = 0
FIsInf(a) == a[1] # 0 /\ a[2] = 0
FIsFinite(a) == a[2] # 0

\* A value the exact arithmetic cannot express (an irrational square root, a
\* transcendental function away from its exact points) is kept as the term
\* that produced it, <<"sym", function, arguments>>.  No comparison of the
\* code is ever made on such a term in the model.
Sym(fn, args) == <<"sym", fn, args>>
IsSym(a) == Len(a) = 3

FNeg(a) == IF IsSym(a) THEN Sym("neg", <<a>>) ELSE <<-a[1], a[2]>>

FAdd(a, b) ==
    IF IsSym(a) \/ IsSym(b) THEN Sym("+", <<a, b>>)
    ELSE IF FIsNaN(a) \/ FIsNaN(b) THEN NaN
    ELSE IF FIsInf(a) /\ FIsInf(b) THEN (IF a = b THEN a ELSE NaN)
    ELSE IF FIsInf(a) THEN a
    ELSE IF FIsInf(b) THEN b
    ELSE LET g == GCD(a[2], b[2])
         IN  Norm(a[1] * (b[2] \div g) + b[1] * (a[2] \div g), (a[2] \div g) * b[2])

FSub(a, b) ==
    IF IsSym(a) \/ IsSym(b) THEN Sym("-", <<a, b>>) ELSE FAdd(a, FNeg(b))

\* inf * 0 is 0/0, NaN, by the representation
FMul(a, b) ==
    IF IsSym(a) \/ IsSym(b) THEN Sym("*", <<a, b>>)
    ELSE LET g == CommonFactor(a[1], b[2])
             h == CommonFactor(b[1], a[2])
         IN  Norm((a[1] \div g) * (b[1] \div h), (a[2] \div h) * (b[2] \div g))

\* x/0 is n/0: an infinity, or NaN for 0/0; inf/inf is 0/0
FDiv(a, b) ==
    IF IsSym(a) \/ IsSym(b) THEN Sym("/", <<a, b>>)
    ELSE LET g == CommonFactor(a[1], b[1])
             h == CommonFactor(a[2], b[2])
         IN  Norm((a[1] \div g) * (b[2] \div h), (a[2] \div h) * (b[1] \div g))

FEq(a, b) == ~FIsNaN(a) /\ ~FIsNaN(b) /\ a = b

FLt(a, b) ==
    /\ ~FIsNaN(a)
    /\ ~FIsNaN(b)
    /\ a # b
    /\ IF a[2] = 0 THEN a[1] < 0
       ELSE IF b[2] = 0 THEN b[1] > 0
       ELSE LET g == GCD(a[2], b[2])
            IN  a[1] * (b[2] \div g) < b[1] * (a[2] \div g)

FGt(a, b) == FLt(b, a)
FLe(a, b) == FLt(a, b) \/ FEq(a, b)
FGe(a, b) == FLt(b, a) \/ FEq(a, b)

\* std::abs
FAbs(a) == IF IsSym(a) THEN Sym("abs", <<a>>) ELSE <<Abs(a[1]), a[2]>>

\* largest r with r*r <= x, for x >= 0
RECURSIVE ISqrtFrom(_, _, _)
ISqrtFrom(x, lo, hi) ==
    IF lo >= hi THEN lo
    ELSE LET mid == (lo + hi + 1) \div 2
         IN  IF mid * mid <= x THEN ISqrtFrom(x, mid, hi)
             ELSE ISqrtFrom(x, lo, mid - 1)

ISqrt(x) == ISqrtFrom(x, 0, x)

\* std::sqrt: exact on the square of a rational, NaN below zero
FSqrt(a) ==
    IF IsSym(a) THEN Sym("sqrt", <<a>>)
    ELSE IF FIsNaN(a) \/ a[1] < 0 THEN NaN
    ELSE IF FIsInf(a) THEN a
    ELSE LET rn == ISqrt(a[1])
             rd == ISqrt(a[2])
         IN  IF rn * rn = a[1] /\ rd * rd = a[2] THEN Norm(rn, rd)
             ELSE Sym("sqrt", <<a>>)

\* std::acosf: acos(1) is exactly 0; NaN outside [-1, 1]
FAcos(a) ==
    IF IsSym(a) THEN Sym("acos", <<a>>)
    ELSE IF FIsNaN(a) \/ FLt(a, F(-1)) \/ FGt(a, F(1)) THEN NaN
    ELSE IF a = F(1) THEN F(0)
    ELSE Sym("acos", <<a>>)

\* std::logf: log(1) is exactly 0, log(0) is -infinity; NaN below zero
FLog(a) ==
    IF IsSym(a) THEN Sym("log", <<a>>)
    ELSE IF FIsNaN(a) \/ FLt(a, F(0)) THEN NaN
    ELSE IF a = F(0) THEN NegInf
    ELSE IF a = F(1) THEN F(0)
    ELSE IF a = PosInf THEN PosInf
    ELSE Sym("log", <<a>>)

\* std::sinf: sin(0) is exactly 0; NaN at an infinity
FSin(a) ==
    IF IsSym(a) THEN Sym("sin", <<a>>)
    ELSE IF ~FIsFinite(a) THEN NaN
    ELSE IF a = F(0) THEN F(0)
    ELSE Sym("sin", <<a>>)

\* std::cosf: cos(0) is exactly 1; NaN at an infinity
FCos(a) ==
    IF IsSym(a) THEN Sym("cos", <<a>>)
    ELSE IF ~FIsFinite(a) THEN NaN
    ELSE IF a = F(0) THEN F(1)
    ELSE Sym("cos", <<a>>)

\* std::expf: exp(0) is exactly 1
FExp(a) ==
    IF IsSym(a) THEN Sym("exp", <<a>>)
    ELSE IF FIsNaN(a) THEN NaN
    ELSE IF a = PosInf THEN PosInf
    ELSE IF a = NegInf THEN F(0)
    ELSE IF a = F(0) THEN F(1)
    ELSE Sym("exp", <<a>>)

\* the float operators of C++, written infix
a ++ b == FAdd(a, b)
a -- b == FSub(a, b)
a ** b == FMul(a, b)
a // b == FDiv(a, b)

\* std::fmodf: the remainder of a / b with the quotient truncated toward
\* zero, so that the result has the sign of a; it is exact
FMod(a, b) ==
    IF FIsNaN(a) \/ FIsNaN(b) \/ FIsInf(a) \/ b[1] = 0 THEN NaN
    ELSE IF FIsInf(b) THEN a
    ELSE LET q == FDiv(a, b)
             k == Sgn(q[1]) * (Abs(q[1]) \div q[2])
         IN  FSub(a, FMul(F(k), b))

\* n/d > 0 rounded to MantissaBits significant bits, ties to even
RECURSIVE RoundAbs(_, _)
RoundAbs(n, d) ==
    IF n < (2 ^ (MantissaBits - 1)) * d
    THEN LET r == RoundAbs(2 * n, d) IN <<r[1], 2 * r[2]>>
    ELSE IF n >= (2 ^ MantissaBits) * d
    THEN LET r == RoundAbs(n, 2 * d) IN <<2 * r[1], r[2]>>
    ELSE LET m == n \div d
             rem == n - m * d
             up == 2 * rem > d \/ (2 * rem = d /\ m % 2 = 1)
         IN  <<IF up THEN m + 1 ELSE m, 1>>

\* the float nearest to a: the rounding the hardware applies to the result of
\* one operation
Fl(a) ==
    IF IsSym(a) \/ a[2] = 0 \/ a[1] = 0 THEN a
    ELSE LET r == RoundAbs(Abs(a[1]), a[2])
         IN  Norm(Sgn(a[1]) * r[1], r[2])

-----------------------------------------------------------------------------
(* MathHelper *)

\* MathHelper::Pi is static_cast<float>(M_PI), the float 0x40490FDB
MathHelper_Pi == <<13176795, 4194304>>

MathHelper_TwoPi == F(2) ** MathHelper_Pi

MathHelper_Max(val1, val2) == IF FGt(val1, val2) THEN val1 ELSE val2

MathHelper_Min(val1, val2) == IF FLt(val1, val2) THEN val1 ELSE val2

MathHelper_Clamp(val, min, max) == MathHelper_Max(min, MathHelper_Min(max, val))

MathHelper_WrapAngle(val) ==
    LET v == FMod(val, MathHelper_TwoPi)
    IN  IF FGt(v, MathHelper_Pi) THEN FNeg(MathHelper_TwoPi -- v) ELSE v

\* Lerp with t clamped to [0, 1]
MathHelper_Lerp_ClampedWeight(val1, val2, t) ==
    Fl(val1 ++ Fl(Fl(val2 -- val1) ** MathHelper_Clamp(t, F(0), F(1))))

\* val1 + (val2 - val1) * t, each of the three operations rounded
MathHelper_Lerp(val1, val2, t) == Fl(val1 ++ Fl(Fl(val2 -- val1) ** t))

-----------------------------------------------------------------------------
(* Vector2 *)

Vector2(x, y) == [X |-> x, Y |-> y]

Vector2_Dot(v1, v2) == (v1.X ** v2.X) ++ (v1.Y ** v2.Y)

\* v1 + (v2 - v1)*t through the component-wise operators, each rounded
Vector2_Lerp(v1, v2, t) ==
    Vector2(Fl(v1.X ++ Fl(Fl(v2.X -- v1.X) ** t)),
            Fl(v1.Y ++ Fl(Fl(v2.Y -- v1.Y) ** t)))

Vector2_Clamp(point, min, max) ==
    LET x == MathHelper_Clamp(point.X, min.X, max.X)
        y == MathHelper_Clamp(point.Y, min.Y, max.Y)
    IN  Vector2(x, y)

\* operator-=: both subtractions are applied to X
Vector2_SubAssign(this, rhs) ==
    LET x1 == this.X -- rhs.X
        x2 == x1 -- rhs.Y
    IN  [this EXCEPT !.X = x2]

\* operator-(const Vector2&, const Vector2&)
Vector2_Sub(lhs, rhs) == Vector2(lhs.X -- rhs.X, lhs.Y -- rhs.Y)

-----------------------------------------------------------------------------
(* Vector3 *)

Vector3(x, y, z) == [X |-> x, Y |-> y, Z |-> z]

Vector3_UnitX == Vector3(F(1), F(0), F(0))
Vector3_UnitY == Vector3(F(0), F(1), F(0))
Vector3_UnitZ == Vector3(F(0), F(0), F(1))
Vector3_Backward == Vector3_UnitZ
Vector3_Right == Vector3_UnitX
Vector3_Up == Vector3_UnitY

\* operator-(const Vector3&)
Vector3_Neg(rhs) == Vector3(FNeg(rhs.X), FNeg(rhs.Y), FNeg(rhs.Z))

\* operator+(const Vector3&, const Vector3&)
Vector3_Add(lhs, rhs) == Vector3(lhs.X ++ rhs.X, lhs.Y ++ rhs.Y, lhs.Z ++ rhs.Z)

\* operator-(const Vector3&, const Vector3&)
Vector3_Sub(lhs, rhs) == Vector3_Add(lhs, Vector3_Neg(rhs))

\* operator*(const Vector3&, float)
Vector3_Scale(lhs, rhs) == Vector3(lhs.X ** rhs, lhs.Y ** rhs, lhs.Z ** rhs)

\* operator/(const Vector3&, float)
Vector3_DivScalar(lhs, rhs) == Vector3(lhs.X // rhs, lhs.Y // rhs, lhs.Z // rhs)

Vector3_LengthSquared(this) ==
    (this.X ** this.X) ++ (this.Y ** this.Y) ++ (this.Z ** this.Z)

Vector3_Length(this) == FSqrt(Vector3_LengthSquared(this))

Vector3_Dot(v1, v2) == (v1.X ** v2.X) ++ (v1.Y ** v2.Y) ++ (v1.Z ** v2.Z)

\* Cross with the two products of the Y component exchanged
Vector3_Cross_YSignFlipped(v1, v2) ==
    LET x == (v1.Y ** v2.Z) -- (v1.Z ** v2.Y)
        y == (v1.X ** v2.Z) -- (v1.Z ** v2.X)
        z == (v1.X ** v2.Y) -- (v1.Y ** v2.X)
    IN  Vector3(x, y, z)

Vector3_Cross(v1, v2) ==
    LET x == (v1.Y ** v2.Z) -- (v1.Z ** v2.Y)
        y == (v1.Z ** v2.X) -- (v1.X ** v2.Z)
        z == (v1.X ** v2.Y) -- (v1.Y ** v2.X)
    IN  Vector3(x, y, z)

\* declared in Vector3.h; the scalar helper applied to each component
Vector3_Lerp(p1, p2, t) ==
    Vector3(MathHelper_Lerp(p1.X, p2.X, t),
            MathHelper_Lerp(p1.Y, p2.Y, t),
            MathHelper_Lerp(p1.Z, p2.Z, t))

Vector3_Clamp(val, min, max) ==
    LET x == MathHelper_Clamp(val.X, min.X, max.X)
        y == MathHelper_Clamp(val.Y, min.Y, max.Y)
        z == MathHelper_Clamp(val.Z, min.Z, max.Z)
    IN  Vector3(x, y, z)

-----------------------------------------------------------------------------
(* Vector4 *)

Vector4(x, y, z, w) == [X |-> x, Y |-> y, Z |-> z, W |-> w]

Vector4_LengthSquared(this) ==
    (this.X ** this.X) ++ (this.Y ** this.Y) ++ (this.Z ** this.Z) ++ (this.W ** this.W)

\* every component is clamped from the X components
Vector4_Lerp(f, to, t) ==
    Vector4(MathHelper_Lerp(f.X, to.X, t),
            MathHelper_Lerp(f.Y, to.Y, t),
            MathHelper_Lerp(f.Z, to.Z, t),
            MathHelper_Lerp(f.W, to.W, t))

Vector4_Clamp(val, min, max) ==
    Vector4(MathHelper_Clamp(val.X, min.X, max.X),
            MathHelper_Clamp(val.X, min.X, max.X),
            MathHelper_Clamp(val.X, min.X, max.X),
            MathHelper_Clamp(val.X, min.X, max.X))

\* operator-=: the body divides
Vector4_SubAssign(this, v) ==
    Vector4(this.X // v.X, this.Y // v.Y, this.Z // v.Z, this.W // v.W)

\* operator-(Vector4 lhs, const Vector4& rhs): lhs -= rhs on the copy
Vector4_Sub(lhs, rhs) == Vector4_SubAssign(lhs, rhs)

Vector4_DistanceSquared(p1, p2) == Vector4_LengthSquared(Vector4_Sub(p1, p2))

-----------------------------------------------------------------------------
(* Quaternion *)

Quaternion(x, y, z, w) == [X |-> x, Y |-> y, Z |-> z, W |-> w]

Quaternion_Identity == Quaternion(F(0), F(0), F(0), F(1))

\* void Quaternion::Conjugate()
Quaternion_ConjugateInPlace(this) ==
    [this EXCEPT !.X = FNeg(this.X), !.Y = FNeg(this.Y), !.Z = FNeg(this.Z)]

\* static Quaternion Quaternion::Conjugate(Quaternion q)
Quaternion_Conjugate(q) == Quaternion_ConjugateInPlace(q)

Quaternion_LengthSquared(this) ==
    (this.X ** this.X) ++ (this.Y ** this.Y) ++ (this.Z ** this.Z) ++ (this.W ** this.W)

Quaternion_Dot(q1, q2) ==
    (q1.X ** q2.X) ++ (q1.Y ** q2.Y) ++ (q1.Z ** q2.Z) ++ (q1.W ** q2.W)

\* operator*=(const Quaternion&)
Quaternion_MulAssign(this, q) ==
    LET x == (this.W ** q.X) ++ (this.X ** q.W) ++ (this.Y ** q.Z) -- (this.Z ** q.Y)
        y == (this.W ** q.Y) -- (this.X ** q.Z) ++ (this.Y ** q.W) ++ (this.Z ** q.X)
        z == (this.W ** q.Z) ++ (this.X ** q.Y) -- (this.Y ** q.X) ++ (this.Z ** q.W)
        w == (this.W ** q.W) -- (this.X ** q.X) -- (this.Y ** q.Y) -- (this.Z ** q.Z)
    IN  Quaternion(x, y, z, w)

\* operator*(Quaternion lhs, const Quaternion& rhs)
Quaternion_Mul(lhs, rhs) == Quaternion_MulAssign(lhs, rhs)

\* operator*=(float)
Quaternion_ScaleAssign(this, f) ==
    Quaternion(this.X ** f, this.Y ** f, this.Z ** f, this.W ** f)

\* operator*(Quaternion lhs, float rhs)
Quaternion_Scale(lhs, rhs) == Quaternion_ScaleAssign(lhs, rhs)

\* operator/=(float)
Quaternion_DivAssign(this, f) ==
    Quaternion(this.X // f, this.Y // f, this.Z // f, this.W // f)

\* Inverse without the conjugation
Quaternion_Inverse_NoConjugate(q) ==
    LET c == q
    IN  Quaternion_DivAssign(c, Quaternion_LengthSquared(c))

Quaternion_Inverse(q) ==
    LET c == Quaternion_ConjugateInPlace(q)
    IN  Quaternion_DivAssign(c, Quaternion_LengthSquared(c))

\* Concatenate returning first * second
Quaternion_Concatenate_FirstTimesSecond(f, s) == Quaternion_Mul(f, s)

Quaternion_Concatenate(f, s) == Quaternion_Mul(s, f)

Quaternion_Lerp(from, to, t) ==
    Quaternion(MathHelper_Lerp(from.X, to.X, t),
               MathHelper_Lerp(from.Y, to.Y, t),
               MathHelper_Lerp(from.Z, to.Z, t),
               MathHelper_Lerp(from.W, to.W, t))

\* Quaternion::Quaternion(Vector3 xyz, float w)
Quaternion_FromVector3(xyz, w) == Quaternion(xyz.X, xyz.Y, xyz.Z, w)

Quaternion_Length(this) == FSqrt(Quaternion_LengthSquared(this))

QLn(q) ==
    LET len == Quaternion_Length(q)
        theta == q.W // len
        v == Vector3(q.X, q.Y, q.Z)
    IN  Quaternion_FromVector3(Vector3_Scale(v, FAcos(theta)), FLog(len))

QExp(q) ==
    LET v == Vector3(q.X, q.Y, q.Z)
        len == Vector3_Length(v)
    IN  Quaternion_Scale(
            Quaternion_FromVector3(Vector3_Scale(Vector3_DivScalar(v, len), FSin(len)),
                                   FCos(len)),
            FExp(q.W))

QPow(q, p) == QExp(Quaternion_Scale(QLn(q), p))

\* the float 0.999f
SlerpThreshold == <<16760439, 16777216>>

\* Quaternion::Slerp: Lerp is returned when the dot product is below the
\* threshold
Quaternion_Slerp(from, to, t) ==
    LET d == Quaternion_Dot(from, to)
    IN  IF FLt(d, SlerpThreshold) THEN Quaternion_Lerp(from, to, t)
        ELSE Quaternion_Mul(QPow(Quaternion_Mul(to, Quaternion_Inverse(from)), t), from)

-----------------------------------------------------------------------------
(* Matrix *)

Matrix(m11, m12, m13, m14, m21, m22, m23, m24, m31, m32, m33, m34, m41, m42, m43, m44) ==
    [M11 |-> m11, M12 |-> m12, M13 |-> m13, M14 |-> m14,
     M21 |-> m21, M22 |-> m22, M23 |-> m23, M24 |-> m24,
     M31 |-> m31, M32 |-> m32, M33 |-> m33, M34 |-> m34,
     M41 |-> m41, M42 |-> m42, M43 |-> m43, M44 |-> m44]

Matrix_Identity ==
    Matrix(F(1), F(0), F(0), F(0),
           F(0), F(1), F(0), F(0),
           F(0), F(0), F(1), F(0),
           F(0), F(0), F(0), F(1))

\* CreateTranslation(float xT, float yT, float zT)
Matrix_CreateTranslation(xT, yT, zT) ==
    Matrix(F(1), F(0), F(0), F(0),
           F(0), F(1), F(0), F(0),
           F(0), F(0), F(1), F(0),
           xT,   yT,   zT,   F(1))

\* the directional accessors: X() reads, X(source) writes
Matrix_Backward(this) == Vector3(this.M31, this.M32, this.M33)

Matrix_SetBackward(this, source) ==
    [this EXCEPT !.M31 = source.X, !.M32 = source.Y, !.M33 = source.Z]

Matrix_Down(this) == Vector3(FNeg(this.M21), FNeg(this.M22), FNeg(this.M23))

Matrix_SetDown(this, source) ==
    [this EXCEPT !.M21 = source.X, !.M22 = source.Y, !.M23 = source.Z]

Matrix_Forward(this) == Vector3_Neg(Matrix_Backward(this))

Matrix_SetForward(this, source) == Matrix_SetBackward(this, source)

Matrix_Left(this) == Vector3(FNeg(this.M11), FNeg(this.M12), FNeg(this.M13))

Matrix_SetLeft(this, source) ==
    [this EXCEPT !.M11 = source.X, !.M12 = source.Y, !.M13 = source.Z]

Matrix_Right(this) == Vector3_Neg(Matrix_Left(this))

Matrix_SetRight(this, source) == Matrix_SetLeft(this, source)

Matrix_Translation(this) == Vector3(this.M41, this.M42, this.M43)

Matrix_SetTranslation(this, source) ==
    [this EXCEPT !.M41 = source.X, !.M42 = source.Y, !.M43 = source.Z]

Matrix_Up(this) == Vector3_Neg(Matrix_Down(this))

Matrix_SetUp(this, source) == Matrix_SetDown(this, source)

Matrix_CreateFromQuaternion(q) ==
    LET x == q.X  y == q.Y  z == q.Z  w == q.W
        two == F(2)
        one == F(1)
    IN  Matrix((one -- ((two ** y) ** y)) -- ((two ** z) ** z),
               ((two ** x) ** y) ++ ((two ** z) ** w),
               ((two ** x) ** z) -- ((two ** y) ** w),
               F(0),
               ((two ** x) ** y) -- ((two ** z) ** w),
               (one -- ((two ** x) ** x)) -- ((two ** z) ** z),
               ((two ** y) ** z) ++ ((two ** x) ** w),
               F(0),
               ((two ** x) ** z) ++ ((two ** y) ** w),
               ((two ** y) ** z) -- ((two ** x) ** w),
               (one -- ((two ** x) ** x)) -- ((two ** y) ** y),
               F(0),
               F(0), F(0), F(0), F(1))

Matrix_Lerp(from, to, t) ==
    Matrix(MathHelper_Lerp(from.M11, to.M11, t),
           MathHelper_Lerp(from.M12, to.M12, t),
           MathHelper_Lerp(from.M13, to.M13, t),
           MathHelper_Lerp(from.M14, to.M14, t),
           MathHelper_Lerp(from.M21, to.M21, t),
           MathHelper_Lerp(from.M22, to.M22, t),
           MathHelper_Lerp(from.M23, to.M23, t),
           MathHelper_Lerp(from.M24, to.M24, t),
           MathHelper_Lerp(from.M31, to.M31, t),
           MathHelper_Lerp(from.M32, to.M32, t),
           MathHelper_Lerp(from.M33, to.M33, t),
           MathHelper_Lerp(from.M34, to.M34, t),
           MathHelper_Lerp(from.M41, to.M41, t),
           MathHelper_Lerp(from.M42, to.M42, t),
           MathHelper_Lerp(from.M43, to.M43, t),
           MathHelper_Lerp(from.M44, to.M44, t))

\* Transpose leaving M14 and M41 in place
Matrix_Transpose_CornerKept(m) ==
    Matrix(m.M11, m.M21, m.M31, m.M14,
           m.M12, m.M22, m.M32, m.M42,
           m.M13, m.M23, m.M33, m.M43,
           m.M41, m.M24, m.M34, m.M44)

Matrix_Transpose(m) ==
    Matrix(m.M11, m.M21, m.M31, m.M41,
           m.M12, m.M22, m.M32, m.M42,
           m.M13, m.M23, m.M33, m.M43,
           m.M14, m.M24, m.M34, m.M44)

\* CreateFromAxisAngle with the sine and the cosine exchanged
Matrix_CreateFromAxisAngle_SinCosSwapped(axis, angle) ==
    LET c == FSin(angle)
        s == FCos(angle)
        inv == F(1) -- c
    IN  Matrix(((axis.X ** axis.X) ** inv) ++ c,
               ((axis.X ** axis.Y) ** inv) ++ (axis.Z ** s),
               ((axis.X ** axis.Z) ** inv) -- (axis.Y ** s),
               F(0),
               ((axis.X ** axis.Y) ** inv) -- (axis.Z ** s),
               ((axis.Y ** axis.Y) ** inv) ++ c,
               ((axis.Y ** axis.Z) ** inv) ++ (axis.X ** s),
               F(0),
               ((axis.X ** axis.Z) ** inv) ++ (axis.Y ** s),
               ((axis.Y ** axis.Z) ** inv) -- (axis.X ** s),
               ((axis.Z ** axis.Z) ** inv) ++ c,
               F(0),
               F(0), F(0), F(0), F(1))

Matrix_CreateFromAxisAngle(axis, angle) ==
    LET c == FCos(angle)
        s == FSin(angle)
        inv == F(1) -- c
    IN  Matrix(((axis.X ** axis.X) ** inv) ++ c,
               ((axis.X ** axis.Y) ** inv) ++ (axis.Z ** s),
               ((axis.X ** axis.Z) ** inv) -- (axis.Y ** s),
               F(0),
               ((axis.X ** axis.Y) ** inv) -- (axis.Z ** s),
               ((axis.Y ** axis.Y) ** inv) ++ c,
               ((axis.Y ** axis.Z) ** inv) ++ (axis.X ** s),
               F(0),
               ((axis.X ** axis.Z) ** inv) ++ (axis.Y ** s),
               ((axis.Y ** axis.Z) ** inv) -- (axis.X ** s),
               ((axis.Z ** axis.Z) ** inv) ++ c,
               F(0),
               F(0), F(0), F(0), F(1))

Matrix_CreateRotationX(angle) == Matrix_CreateFromAxisAngle(Vector3_Right, angle)

Matrix_CreateRotationY(angle) == Matrix_CreateFromAxisAngle(Vector3_Up, angle)

Matrix_CreateRotationZ(angle) == Matrix_CreateFromAxisAngle(Vector3_Backward, angle)

\* CreateScale(float)
Matrix_CreateScale(scl) ==
    Matrix(scl, F(0), F(0), F(0),
           F(0), scl, F(0), F(0),
           F(0), F(0), scl, F(0),
           F(0), F(0), F(0), F(1))

\* CreateScale(float, float, float)
Matrix_CreateScale3(scaleX, scaleY, scaleZ) ==
    Matrix(scaleX, F(0), F(0), F(0),
           F(0), scaleY, F(0), F(0),
           F(0), F(0), scaleZ, F(0),
           F(0), F(0), F(0), F(1))

\* throw std::out_of_range(what)
Throw(what) == [exception |-> "std::out_of_range", what |-> what]

IsThrow(r) == DOMAIN r = {"exception", "what"}

\* the mutant of CreatePerspective that also rejects zNear = zFar
Matrix_CreatePerspective_RejectsEqual(w, h, zN, zF) ==
    IF FGe(zN, zF) THEN Throw("zNear must be less than or equal to zFar")
    ELSE IF FLt(zN, F(0)) \/ FLt(zF, F(0)) THEN Throw("zNear and zFar must be greater than 0")
    ELSE Matrix((F(2) ** zN) // w, F(0), F(0), F(0),
                F(0), (F(2) ** zN) // h, F(0), F(0),
                F(0), F(0), zF // (zN -- zF), F(-1),
                F(0), F(0), (zN ** zF) // (zN -- zF), F(0))

Matrix_CreatePerspective(w, h, zN, zF) ==
    IF FGt(zN, zF) THEN Throw("zNear must be less than or equal to zFar")
    ELSE IF FLt(zN, F(0)) \/ FLt(zF, F(0)) THEN Throw("zNear and zFar must be greater than 0")
    ELSE Matrix((F(2) ** zN) // w, F(0), F(0), F(0),
                F(0), (F(2) ** zN) // h, F(0), F(0),
                F(0), F(0), zF // (zN -- zF), F(-1),
                F(0), F(0), (zN ** zF) // (zN -- zF), F(0))

\* the field of view is accepted when 0 <= fov <= Pi
Matrix_CreatePerspectiveFieldOfView(fov, aR, zN, zF) ==
    IF ~(FGe(fov, F(0)) /\ FLe(fov, MathHelper_Pi))
    THEN Throw("fieldOfView must be between 0 and Pi radians (0 and 180 degrees)")
    ELSE IF FGt(zN, zF) THEN Throw("zNear must be less than or equal to zFar")
    ELSE IF FLt(zN, F(0)) \/ FLt(zF, F(0)) THEN Throw("zNear and zFar must be greater than 0")
    ELSE LET yScale == FCos(fov // F(2)) // FSin(fov // F(2))
             xScale == yScale // aR
         IN  Matrix(xScale, F(0), F(0), F(0),
                    F(0), yScale, F(0), F(0),
                    F(0), F(0), zF // (zN -- zF), F(-1),
                    F(0), F(0), (zN ** zF) // (zN -- zF), F(0))

Matrix_CreatePerspectiveOffCenter(l, r, b, t, zN, zF) ==
    IF FGt(zN, zF) THEN Throw("zNear must be less than or equal to zFar")
    ELSE IF FLt(zN, F(0)) \/ FLt(zF, F(0)) THEN Throw("zNear and zFar must be greater than 0")
    ELSE Matrix((F(2) ** zN) // (r -- l), F(0), F(0), F(0),
                F(0), (F(2) ** zN) // (t -- b), F(0), F(0),
                (l ++ r) // (r -- l), (t ++ b) // (t -- b), zF // (zN -- zF), F(-1),
                F(0), F(0), (zN ** zF) // (zN -- zF), F(0))

\* operator*=(const Matrix&)
Matrix_MulAssign(this, m) ==
    Matrix(
           (this.M11 ** m.M11) ++ (this.M12 ** m.M21) ++ (this.M13 ** m.M31) ++ (this.M14 ** m.M41),
           (this.M11 ** m.M12) ++ (this.M12 ** m.M22) ++ (this.M13 ** m.M32) ++ (this.M14 ** m.M42),
           (this.M11 ** m.M13) ++ (this.M12 ** m.M23) ++ (this.M13 ** m.M33) ++ (this.M14 ** m.M43),
           (this.M11 ** m.M14) ++ (this.M12 ** m.M24) ++ (this.M13 ** m.M34) ++ (this.M14 ** m.M44),
           (this.M21 ** m.M11) ++ (this.M22 ** m.M21) ++ (this.M23 ** m.M31) ++ (this.M24 ** m.M41),
           (this.M21 ** m.M12) ++ (this.M22 ** m.M22) ++ (this.M23 ** m.M32) ++ (this.M24 ** m.M42),
           (this.M21 ** m.M13) ++ (this.M22 ** m.M23) ++ (this.M23 ** m.M33) ++ (this.M24 ** m.M43),
           (this.M21 ** m.M14) ++ (this.M22 ** m.M24) ++ (this.M23 ** m.M34) ++ (this.M24 ** m.M44),
           (this.M31 ** m.M11) ++ (this.M32 ** m.M21) ++ (this.M33 ** m.M31) ++ (this.M34 ** m.M41),
           (this.M31 ** m.M12) ++ (this.M32 ** m.M22) ++ (this.M33 ** m.M32) ++ (this.M34 ** m.M42),
           (this.M31 ** m.M13) ++ (this.M32 ** m.M23) ++ (this.M33 ** m.M33) ++ (this.M34 ** m.M43),
           (this.M31 ** m.M14) ++ (this.M32 ** m.M24) ++ (this.M33 ** m.M34) ++ (this.M34 ** m.M44),
           (this.M41 ** m.M11) ++ (this.M42 ** m.M21) ++ (this.M43 ** m.M31) ++ (this.M44 ** m.M41),
           (this.M41 ** m.M12) ++ (this.M42 ** m.M22) ++ (this.M43 ** m.M32) ++ (this.M44 ** m.M42),
           (this.M41 ** m.M13) ++ (this.M42 ** m.M23) ++ (this.M43 ** m.M33) ++ (this.M44 ** m.M43),
           (this.M41 ** m.M14) ++ (this.M42 ** m.M24) ++ (this.M43 ** m.M34) ++ (this.M44 ** m.M44))

Matrix_Mul(lhs, rhs) == Matrix_MulAssign(lhs, rhs)

\* operator*=(float)
Matrix_ScaleAssign(this, f) ==
    Matrix(
           this.M11 ** f, this.M12 ** f, this.M13 ** f, this.M14 ** f,
           this.M21 ** f, this.M22 ** f, this.M23 ** f, this.M24 ** f,
           this.M31 ** f, this.M32 ** f, this.M33 ** f, this.M34 ** f,
           this.M41 ** f, this.M42 ** f, this.M43 ** f, this.M44 ** f)

Matrix_Scale(lhs, rhs) == Matrix_ScaleAssign(lhs, rhs)

\* operator*(float, const Matrix&)
Matrix_ScaleLeft(lhs, rhs) == Matrix_Scale(rhs, lhs)

Matrix_Determinant(this) ==
    LET s0 == (this.M11 ** this.M22) -- (this.M12 ** this.M21)
        s1 == (this.M11 ** this.M23) -- (this.M13 ** this.M21)
        s2 == (this.M11 ** this.M24) -- (this.M14 ** this.M21)
        s3 == (this.M12 ** this.M23) -- (this.M13 ** this.M22)
        s4 == (this.M12 ** this.M24) -- (this.M14 ** this.M22)
        s5 == (this.M13 ** this.M24) -- (this.M14 ** this.M23)
        c0 == (this.M31 ** this.M42) -- (this.M32 ** this.M41)
        c1 == (this.M31 ** this.M43) -- (this.M33 ** this.M41)
        c2 == (this.M31 ** this.M44) -- (this.M34 ** this.M41)
        c3 == (this.M32 ** this.M43) -- (this.M33 ** this.M42)
        c4 == (this.M32 ** this.M44) -- (this.M34 ** this.M42)
        c5 == (this.M33 ** this.M44) -- (this.M34 ** this.M43)
    IN  (((((s0 ** c5) -- (s1 ** c4)) ++ (s2 ** c3)) ++ (s3 ** c2)) -- (s4 ** c1)) ++ (s5 ** c0)

\* the 2x2 minors s0..s5 of the upper and c0..c5 of the lower two rows
Matrix_InvertMinors(m) ==
    LET s0 == (m.M11 ** m.M22) -- (m.M12 ** m.M21)
        s1 == (m.M11 ** m.M23) -- (m.M13 ** m.M21)
        s2 == (m.M11 ** m.M24) -- (m.M14 ** m.M21)
        s3 == (m.M12 ** m.M23) -- (m.M13 ** m.M22)
        s4 == (m.M12 ** m.M24) -- (m.M14 ** m.M22)
        s5 == (m.M13 ** m.M24) -- (m.M14 ** m.M23)
        c0 == (m.M31 ** m.M42) -- (m.M32 ** m.M41)
        c1 == (m.M31 ** m.M43) -- (m.M33 ** m.M41)
        c2 == (m.M31 ** m.M44) -- (m.M34 ** m.M41)
        c3 == (m.M32 ** m.M43) -- (m.M33 ** m.M42)
        c4 == (m.M32 ** m.M44) -- (m.M34 ** m.M42)
        c5 == (m.M33 ** m.M44) -- (m.M34 ** m.M43)
    IN  [s0 |-> s0, s1 |-> s1, s2 |-> s2, s3 |-> s3, s4 |-> s4, s5 |-> s5,
         c0 |-> c0, c1 |-> c1, c2 |-> c2, c3 |-> c3, c4 |-> c4, c5 |-> c5]

\* the local det of Invert
Matrix_InvertDet(m) ==
    LET k == Matrix_InvertMinors(m)
        s0 == k.s0  s1 == k.s1  s2 == k.s2  s3 == k.s3  s4 == k.s4  s5 == k.s5
        c0 == k.c0  c1 == k.c1  c2 == k.c2  c3 == k.c3  c4 == k.c4  c5 == k.c5
    IN  (((((s0 ** c5) -- (s1 ** c4)) ++ (s2 ** c3)) ++ (s3 ** c2)) -- (s4 ** c1)) ++ (s5 ** c0)

\* the adjugate with the sign of the last term of its first entry flipped
Matrix_InvertAdj_SignSlip(m) ==
    LET k == Matrix_InvertMinors(m)
        s0 == k.s0  s1 == k.s1  s2 == k.s2  s3 == k.s3  s4 == k.s4  s5 == k.s5
        c0 == k.c0  c1 == k.c1  c2 == k.c2  c3 == k.c3  c4 == k.c4  c5 == k.c5
    IN  Matrix(
               (((m.M22 ** c5) -- (m.M23 ** c4)) -- (m.M24 ** c3)),
               (((FNeg(m.M12) ** c5) ++ (m.M13 ** c4)) -- (m.M14 ** c3)),
               (((m.M42 ** s5) -- (m.M43 ** s4)) ++ (m.M44 ** s3)),
               (((FNeg(m.M32) ** s5) ++ (m.M33 ** s4)) -- (m.M34 ** s3)),
               (((FNeg(m.M21) ** c5) ++ (m.M23 ** c2)) -- (m.M24 ** c1)),
               (((m.M11 ** c5) -- (m.M13 ** c2)) ++ (m.M14 ** c1)),
               (((FNeg(m.M41) ** s5) ++ (m.M43 ** s2)) -- (m.M44 ** s1)),
               (((m.M31 ** s5) -- (m.M33 ** s2)) ++ (m.M34 ** s1)),
               (((m.M21 ** c4) -- (m.M22 ** c2)) ++ (m.M24 ** c0)),
               (((FNeg(m.M11) ** c4) ++ (m.M12 ** c2)) -- (m.M14 ** c0)),
               (((m.M41 ** s4) -- (m.M42 ** s2)) ++ (m.M44 ** s0)),
               (((FNeg(m.M31) ** s4) ++ (m.M32 ** s2)) -- (m.M34 ** s0)),
               (((FNeg(m.M21) ** c3) ++ (m.M22 ** c1)) -- (m.M23 ** c0)),
               (((m.M11 ** c3) -- (m.M12 ** c1)) ++ (m.M13 ** c0)),
               (((FNeg(m.M41) ** s3) ++ (m.M42 ** s1)) -- (m.M43 ** s0)),
               (((m.M31 ** s3) -- (m.M32 ** s1)) ++ (m.M33 ** s0)))

\* the local adj of Invert
Matrix_InvertAdj(m) ==
    LET k == Matrix_InvertMinors(m)
        s0 == k.s0  s1 == k.s1  s2 == k.s2  s3 == k.s3  s4 == k.s4  s5 == k.s5
        c0 == k.c0  c1 == k.c1  c2 == k.c2  c3 == k.c3  c4 == k.c4  c5 == k.c5
    IN  Matrix(
               (((m.M22 ** c5) -- (m.M23 ** c4)) ++ (m.M24 ** c3)),
               (((FNeg(m.M12) ** c5) ++ (m.M13 ** c4)) -- (m.M14 ** c3)),
               (((m.M42 ** s5) -- (m.M43 ** s4)) ++ (m.M44 ** s3)),
               (((FNeg(m.M32) ** s5) ++ (m.M33 ** s4)) -- (m.M34 ** s3)),
               (((FNeg(m.M21) ** c5) ++ (m.M23 ** c2)) -- (m.M24 ** c1)),
               (((m.M11 ** c5) -- (m.M13 ** c2)) ++ (m.M14 ** c1)),
               (((FNeg(m.M41) ** s5) ++ (m.M43 ** s2)) -- (m.M44 ** s1)),
               (((m.M31 ** s5) -- (m.M33 ** s2)) ++ (m.M34 ** s1)),
               (((m.M21 ** c4) -- (m.M22 ** c2)) ++ (m.M24 ** c0)),
               (((FNeg(m.M11) ** c4) ++ (m.M12 ** c2)) -- (m.M14 ** c0)),
               (((m.M41 ** s4) -- (m.M42 ** s2)) ++ (m.M44 ** s0)),
               (((FNeg(m.M31) ** s4) ++ (m.M32 ** s2)) -- (m.M34 ** s0)),
               (((FNeg(m.M21) ** c3) ++ (m.M22 ** c1)) -- (m.M23 ** c0)),
               (((m.M11 ** c3) -- (m.M12 ** c1)) ++ (m.M13 ** c0)),
               (((FNeg(m.M41) ** s3) ++ (m.M42 ** s1)) -- (m.M43 ** s0)),
               (((m.M31 ** s3) -- (m.M32 ** s1)) ++ (m.M33 ** s0)))

Matrix_Invert(m) == Matrix_ScaleLeft(F(1) // Matrix_InvertDet(m), Matrix_InvertAdj(m))

Quaternion_CreateFromRotationMatrix(m) ==
    LET w == (F(1) // F(2)) ** FSqrt(((F(1) ++ m.M11) -- m.M22) -- m.M33)
        inv == F(1) // (F(4) ** w)
    IN  Quaternion(inv ** (m.M23 -- m.M32),
                   inv ** (m.M31 -- m.M13),
                   inv ** (m.M12 -- m.M21),
                   w)

\* Decompose giving up only when all three rows have length zero
Matrix_Decompose_AllRowsZero(this, s, r, t) ==
    LET scaleX == FSqrt(((this.M11 ** this.M11) ++ (this.M12 ** this.M12)) ++ (this.M13 ** this.M13))
        scaleY == FSqrt(((this.M21 ** this.M21) ++ (this.M22 ** this.M22)) ++ (this.M23 ** this.M23))
        scaleZ == FSqrt(((this.M31 ** this.M31) ++ (this.M32 ** this.M32)) ++ (this.M33 ** this.M33))
    IN  IF FEq(scaleX, F(0)) /\ FEq(scaleY, F(0)) /\ FEq(scaleZ, F(0))
        THEN [ret |-> FALSE, s |-> s, r |-> Quaternion_Identity, t |-> t]
        ELSE [ret |-> TRUE,
              r |-> Quaternion_CreateFromRotationMatrix(
                      Matrix(this.M11 // scaleX, this.M12 // scaleX, this.M13 // scaleX, F(0),
                             this.M21 // scaleY, this.M22 // scaleY, this.M23 // scaleY, F(0),
                             this.M31 // scaleZ, this.M32 // scaleZ, this.M33 // scaleZ, F(0),
                             F(0), F(0), F(0), F(1))),
              s |-> Vector3(scaleX, scaleY, scaleZ),
              t |-> Vector3(this.M41, this.M42, this.M43)]

\* bool Decompose(Vector3& s, Quaternion& r, Vector3& t) const: the return
\* value and the three out-parameters after the call
Matrix_Decompose(this, s, r, t) ==
    LET scaleX == FSqrt(((this.M11 ** this.M11) ++ (this.M12 ** this.M12)) ++ (this.M13 ** this.M13))
        scaleY == FSqrt(((this.M21 ** this.M21) ++ (this.M22 ** this.M22)) ++ (this.M23 ** this.M23))
        scaleZ == FSqrt(((this.M31 ** this.M31) ++ (this.M32 ** this.M32)) ++ (this.M33 ** this.M33))
    IN  IF FEq(scaleX, F(0)) \/ FEq(scaleY, F(0)) \/ FEq(scaleZ, F(0))
        THEN [ret |-> FALSE, s |-> s, r |-> Quaternion_Identity, t |-> t]
        ELSE [ret |-> TRUE,
              r |-> Quaternion_CreateFromRotationMatrix(
                      Matrix(this.M11 // scaleX, this.M12 // scaleX, this.M13 // scaleX, F(0),
                             this.M21 // scaleY, this.M22 // scaleY, this.M23 // scaleY, F(0),
                             this.M31 // scaleZ, this.M32 // scaleZ, this.M33 // scaleZ, F(0),
                             F(0), F(0), F(0), F(1))),
              s |-> Vector3(scaleX, scaleY, scaleZ),
              t |-> Vector3(this.M41, this.M42, this.M43)]

-----------------------------------------------------------------------------
(* Transform *)

\* Vector3::Transform(const Vector3&, const Matrix&): the Z component adds
\* M41
Vector3_TransformMatrix(vec, m) ==
    Vector3((vec.X ** m.M11) ++ (vec.Y ** m.M21) ++ (vec.Z ** m.M31) ++ m.M41,
            (vec.X ** m.M12) ++ (vec.Y ** m.M22) ++ (vec.Z ** m.M32) ++ m.M42,
            (vec.X ** m.M13) ++ (vec.Y ** m.M23) ++ (vec.Z ** m.M33) ++ m.M41)

Vector2_TransformMatrix(v, m) ==
    Vector2((v.X ** m.M11) ++ (v.Y ** m.M21) ++ m.M41,
            (v.X ** m.M12) ++ (v.Y ** m.M22) ++ m.M42)

Vector2_TransformNormal(normal, m) ==
    Vector2((normal.X ** m.M11) ++ (normal.Y ** m.M21),
            (normal.X ** m.M12) ++ (normal.Y ** m.M22))

\* TransformNormal that adds the translation to X, as Transform does
Vector3_TransformNormal_AddsTranslation(norm, m) ==
    Vector3((norm.X ** m.M11) ++ (norm.Y ** m.M21) ++ (norm.Z ** m.M31) ++ m.M41,
            (norm.X ** m.M12) ++ (norm.Y ** m.M22) ++ (norm.Z ** m.M32),
            (norm.X ** m.M13) ++ (norm.Y ** m.M23) ++ (norm.Z ** m.M33))

Vector3_TransformNormal(norm, m) ==
    Vector3((norm.X ** m.M11) ++ (norm.Y ** m.M21) ++ (norm.Z ** m.M31),
            (norm.X ** m.M12) ++ (norm.Y ** m.M22) ++ (norm.Z ** m.M32),
            (norm.X ** m.M13) ++ (norm.Y ** m.M23) ++ (norm.Z ** m.M33))

\* the local w is computed and dropped: the W returned is 0
Vector4_TransformNormal(norm, m) ==
    LET x == (norm.X ** m.M11) ++ (norm.Y ** m.M21) ++ (norm.Z ** m.M31)
        y == (norm.X ** m.M12) ++ (norm.Y ** m.M22) ++ (norm.Z ** m.M32)
        z == (norm.X ** m.M13) ++ (norm.Y ** m.M23) ++ (norm.Z ** m.M33)
        w == (norm.X ** m.M14) ++ (norm.Y ** m.M24) ++ (norm.Z ** m.M34)
    IN  Vector4(x, y, z, F(0))

\* Vector3::Transform(const Vector3&, const Quaternion&): vQ is built by
\* Quaternion(x, y, z, w) from the arguments (0, vec.X, vec.Y, vec.Z)
Vector3_TransformQuaternion(vec, q) ==
    LET vQ == Quaternion(F(0), vec.X, vec.Y, vec.Z)
        res == Quaternion_Mul(Quaternion_Mul(q, vQ), Quaternion_Conjugate(q))
    IN  Vector3(res.X, res.Y, res.Z)

\* Vector2::Transform(const Vector2&, const Quaternion&)
Vector2_TransformQuaternion(v, q) ==
    LET vQ == Quaternion(F(0), v.X, v.Y, F(0))
        res == Quaternion_Mul(Quaternion_Mul(q, vQ), Quaternion_Conjugate(q))
    IN  Vector2(res.X, res.Y)

-----------------------------------------------------------------------------
(* Operand sets. *)

Coord == {F(i) : i \in -MaxCoord .. MaxCoord}

Vector2Set == {Vector2(x, y) : x \in Coord, y \in Coord}
Vector3Set == {Vector3(x, y, z) : x \in Coord, y \in Coord, z \in Coord}
Vector4Set == {Vector4(x, y, z, w) : x \in Coord, y \in Coord, z \in Coord, w \in Coord}

\* the value of a variable the specification at hand does not use
Unused == <<>>

NoNum == [none |-> F(0)]

-----------------------------------------------------------------------------
(* Subtraction and distance: Vector2 and Vector4 operands. *)

InitSub ==
    /\ op = "none"
    /\ \/ vecA \in Vector2Set /\ vecB \in Vector2Set
       \/ vecA \in Vector4Set /\ vecB \in Vector4Set
    /\ vecC = Unused
    /\ quatA = Unused /\ quatB = Unused /\ mat = Unused /\ num = NoNum
    /\ out = Unused /\ err = ""
    /\ scale = Unused /\ rot = Unused /\ trans = Unused

IsVector2(v) == DOMAIN v = {"X", "Y"}
IsVector3(v) == DOMAIN v = {"X", "Y", "Z"}
IsVector4(v) == DOMAIN v = {"X", "Y", "Z", "W"}

\* a -= b on Vector2: a is written, and returned by reference
CallVector2SubAssign ==
    /\ op = "none" /\ IsVector2(vecA)
    /\ op' = "Vector2::operator-="
    /\ vecA' = Vector2_SubAssign(vecA, vecB)
    /\ out' = vecA'
    /\ UNCHANGED <<vecB, vecC, quatA, quatB, mat, num, err, scale, rot, trans>>

\* a - b on Vector2
CallVector2Sub ==
    /\ op = "none" /\ IsVector2(vecA)
    /\ op' = "Vector2::operator-"
    /\ out' = Vector2_Sub(vecA, vecB)
    /\ UNCHANGED <<vecA, vecB, vecC, quatA, quatB, mat, num, err, scale, rot, trans>>

\* a -= b on Vector4
CallVector4SubAssign ==
    /\ op = "none" /\ IsVector4(vecA)
    /\ op' = "Vector4::operator-="
    /\ vecA' = Vector4_SubAssign(vecA, vecB)
    /\ out' = vecA'
    /\ UNCHANGED <<vecB, vecC, quatA, quatB, mat, num, err, scale, rot, trans>>

\* a - b on Vector4: the left operand is taken by value
CallVector4Sub ==
    /\ op = "none" /\ IsVector4(vecA)
    /\ op' = "Vector4::operator-"
    /\ out' = Vector4_Sub(vecA, vecB)
    /\ UNCHANGED <<vecA, vecB, vecC, quatA, quatB, mat, num, err, scale, rot, trans>>

CallVector4DistanceSquared ==
    /\ op = "none" /\ IsVector4(vecA)
    /\ op' = "Vector4::DistanceSquared"
    /\ out' = Vector4_DistanceSquared(vecA, vecB)
    /\ UNCHANGED <<vecA, vecB, vecC, quatA, quatB, mat, num, err, scale, rot, trans>>

NextSub ==
    \/ CallVector2SubAssign
    \/ CallVector2Sub
    \/ CallVector4SubAssign
    \/ CallVector4Sub
    \/ CallVector4DistanceSquared

SpecSub == InitSub /\ [][NextSub]_vars

\* the component-wise difference a - b of two vectors of the same type
Difference(a, b) == [c \in DOMAIN a |-> a[c] -- b[c]]

\* the sum of the squared component differences of two Vector4
SumOfSquaredDifferences(a, b) ==
    LET d == Difference(a, b)
    IN  (d.X ** d.X) ++ (d.Y ** d.Y) ++ (d.Z ** d.Z) ++ (d.W ** d.W)

\* C3: for all Vector4 a and b, a - b and a -= b both produce the
\* component-wise difference, so that DistanceSquared(p1, p2) is the sum of
\* the squared component differences and DistanceSquared(p, p) is 0.
C3_Vector4Difference ==
    [][/\ op' = "Vector4::operator-=" => vecA' = Difference(vecA, vecB)
       /\ op' = "Vector4::operator-" => out' = Difference(vecA, vecB)
       /\ op' = "Vector4::DistanceSquared" =>
            /\ out' = SumOfSquaredDifferences(vecA, vecB)
            /\ vecA = vecB => out' = F(0)]_vars

\* C4: for all Vector2 a and b, a -= b leaves a equal to a - b, that is
\* (a.X - b.X, a.Y - b.Y): each component changes by the same component of b.
C4_Vector2SubAssign ==
    [][op' = "Vector2::operator-=" =>
         /\ vecA' = Vector2_Sub(vecA, vecB)
         /\ vecA'.X = vecA.X -- vecB.X
         /\ vecA'.Y = vecA.Y -- vecB.Y]_vars

-----------------------------------------------------------------------------
(* Clamp: Vector2, Vector3 and Vector4 operands. *)

\* the first dim components of a Vector4, as a vector of that dimension
Project(v, dim) ==
    IF dim = 2 THEN Vector2(v.X, v.Y)
    ELSE IF dim = 3 THEN Vector3(v.X, v.Y, v.Z)
    ELSE v

\* (min, max) pairs: the full box, boxes that differ from axis to axis, and
\* a box whose bounds are crossed
ClampBoxes ==
    { <<Vector4(F(-1), F(-1), F(-1), F(-1)), Vector4(F(1), F(1), F(1), F(1))>>,
      <<Vector4(F(0), F(-1), F(0), F(-1)), Vector4(F(0), F(1), F(1), F(0))>>,
      <<Vector4(F(-1), F(0), F(1), F(0)), Vector4(F(0), F(0), F(1), F(1))>>,
      <<Vector4(F(1), F(0), F(-1), F(1)), Vector4(F(-1), F(1), F(0), F(-1))>> }

InitClamp ==
    /\ op = "none"
    /\ \E dim \in {2, 3, 4} : \E v \in Vector4Set : \E box \in ClampBoxes :
         /\ vecA = Project(v, dim)
         /\ vecB = Project(box[1], dim)
         /\ vecC = Project(box[2], dim)
    /\ quatA = Unused /\ quatB = Unused /\ mat = Unused /\ num = NoNum
    /\ out = Unused /\ err = ""
    /\ scale = Unused /\ rot = Unused /\ trans = Unused

\* Clamp(val, min, max) with val = vecA, min = vecB, max = vecC
CallVector2Clamp ==
    /\ op = "none" /\ IsVector2(vecA)
    /\ op' = "Vector2::Clamp"
    /\ out' = Vector2_Clamp(vecA, vecB, vecC)
    /\ UNCHANGED <<vecA, vecB, vecC, quatA, quatB, mat, num, err, scale, rot, trans>>

CallVector3Clamp ==
    /\ op = "none" /\ IsVector3(vecA)
    /\ op' = "Vector3::Clamp"
    /\ out' = Vector3_Clamp(vecA, vecB, vecC)
    /\ UNCHANGED <<vecA, vecB, vecC, quatA, quatB, mat, num, err, scale, rot, trans>>

CallVector4Clamp ==
    /\ op = "none" /\ IsVector4(vecA)
    /\ op' = "Vector4::Clamp"
    /\ out' = Vector4_Clamp(vecA, vecB, vecC)
    /\ UNCHANGED <<vecA, vecB, vecC, quatA, quatB, mat, num, err, scale, rot, trans>>

NextClamp ==
    \/ CallVector2Clamp
    \/ CallVector3Clamp
    \/ CallVector4Clamp

SpecClamp == InitClamp /\ [][NextClamp]_vars

\* C5: for Vector2, Vector3 and Vector4, component i of Clamp(val, min, max)
\* is MathHelper::Clamp(val_i, min_i, max_i).
C5_ClampPerAxis ==
    op \in {"Vector2::Clamp", "Vector3::Clamp", "Vector4::Clamp"} =>
        /\ DOMAIN out = DOMAIN vecA
        /\ \A c \in DOMAIN vecA : out[c] = MathHelper_Clamp(vecA[c], vecB[c], vecC[c])

-----------------------------------------------------------------------------
(* Transform: a vector by a matrix or by a quaternion. *)

QuaternionSet ==
    {Quaternion(x, y, z, w) : x \in Coord, y \in Coord, z \in Coord, w \in Coord}

\* rows from which the matrix operands are assembled
MatrixRows ==
    { <<F(1), F(0), F(0), F(0)>>,
      <<F(0), F(1), F(0), F(0)>>,
      <<F(0), F(0), F(1), F(0)>>,
      <<F(0), F(0), F(0), F(1)>>,
      <<F(2), F(-1), F(3), F(1)>> }

MatrixOfRows(r1, r2, r3, r4) ==
    Matrix(r1[1], r1[2], r1[3], r1[4],
           r2[1], r2[2], r2[3], r2[4],
           r3[1], r3[2], r3[3], r3[4],
           r4[1], r4[2], r4[3], r4[4])

TranslationSet == {Matrix_CreateTranslation(t.X, t.Y, t.Z) : t \in Vector3Set}

MatrixSet ==
    {MatrixOfRows(r1, r2, r3, r4) :
        r1 \in MatrixRows, r2 \in MatrixRows, r3 \in MatrixRows, r4 \in MatrixRows}

InitTransform ==
    /\ op = "none"
    /\ \/ /\ vecA \in Vector3Set
          /\ mat \in MatrixSet \cup TranslationSet
          /\ quatA = Unused
       \/ /\ vecA \in Vector3Set \cup Vector2Set
          /\ quatA \in QuaternionSet
          /\ mat = Unused
    /\ vecB = Unused /\ vecC = Unused /\ quatB = Unused /\ num = NoNum
    /\ out = Unused /\ err = ""
    /\ scale = Unused /\ rot = Unused /\ trans = Unused

CallVector3TransformMatrix ==
    /\ op = "none" /\ IsVector3(vecA) /\ mat # Unused
    /\ op' = "Vector3::Transform(Matrix)"
    /\ out' = Vector3_TransformMatrix(vecA, mat)
    /\ UNCHANGED <<vecA, vecB, vecC, quatA, quatB, mat, num, err, scale, rot, trans>>

CallVector3TransformQuaternion ==
    /\ op = "none" /\ IsVector3(vecA) /\ quatA # Unused
    /\ op' = "Vector3::Transform(Quaternion)"
    /\ out' = Vector3_TransformQuaternion(vecA, quatA)
    /\ UNCHANGED <<vecA, vecB, vecC, quatA, quatB, mat, num, err, scale, rot, trans>>

CallVector2TransformQuaternion ==
    /\ op = "none" /\ IsVector2(vecA) /\ quatA # Unused
    /\ op' = "Vector2::Transform(Quaternion)"
    /\ out' = Vector2_TransformQuaternion(vecA, quatA)
    /\ UNCHANGED <<vecA, vecB, vecC, quatA, quatB, mat, num, err, scale, rot, trans>>

NextTransform ==
    \/ CallVector3TransformMatrix
    \/ CallVector3TransformQuaternion
    \/ CallVector2TransformQuaternion

SpecTransform == InitTransform /\ [][NextTransform]_vars

\* C1: Vector3::Transform(v, M) is the first three components of the row
\* vector (v.X, v.Y, v.Z, 1) times M; in particular
\* Transform(v, CreateTranslation(t)) = v + t.
C1_TransformIsRowVectorTimesMatrix ==
    op = "Vector3::Transform(Matrix)" =>
        /\ out.X = (vecA.X ** mat.M11) ++ (vecA.Y ** mat.M21) ++ (vecA.Z ** mat.M31) ++ mat.M41
        /\ out.Y = (vecA.X ** mat.M12) ++ (vecA.Y ** mat.M22) ++ (vecA.Z ** mat.M32) ++ mat.M42
        /\ out.Z = (vecA.X ** mat.M13) ++ (vecA.Y ** mat.M23) ++ (vecA.Z ** mat.M33) ++ mat.M43
        /\ \A t \in Vector3Set :
             mat = Matrix_CreateTranslation(t.X, t.Y, t.Z) => out = Vector3_Add(vecA, t)

\* the Hamilton product a * b, written out
Hamilton(a, b) ==
    Quaternion((a.W ** b.X) ++ (a.X ** b.W) ++ (a.Y ** b.Z) -- (a.Z ** b.Y),
               (a.W ** b.Y) -- (a.X ** b.Z) ++ (a.Y ** b.W) ++ (a.Z ** b.X),
               (a.W ** b.Z) ++ (a.X ** b.Y) -- (a.Y ** b.X) ++ (a.Z ** b.W),
               (a.W ** b.W) -- (a.X ** b.X) -- (a.Y ** b.Y) -- (a.Z ** b.Z))

\* q * p * Conjugate(q) for the pure quaternion p = (x, y, z, 0)
Sandwich(q, x, y, z) ==
    Hamilton(Hamilton(q, Quaternion(x, y, z, F(0))),
             Quaternion(FNeg(q.X), FNeg(q.Y), FNeg(q.Z), q.W))

\* C2: Transform(v, q) for a Vector3 v (a Vector2 v, taken with Z = 0)
\* returns the X, Y (and Z) components of q * p * Conjugate(q), p the pure
\* quaternion of v; in particular Transform(v, Identity) = v and
\* Transform(UnitX, (0,1,0,0)) = -UnitX.
C2_TransformIsQuaternionSandwich ==
    /\ op = "Vector3::Transform(Quaternion)" =>
         LET r == Sandwich(quatA, vecA.X, vecA.Y, vecA.Z)
         IN  /\ out = Vector3(r.X, r.Y, r.Z)
             /\ quatA = Quaternion_Identity => out = vecA
             /\ (vecA = Vector3_UnitX /\ quatA = Quaternion(F(0), F(1), F(0), F(0)))
                  => out = Vector3_Neg(Vector3_UnitX)
    /\ op = "Vector2::Transform(Quaternion)" =>
         LET r == Sandwich(quatA, vecA.X, vecA.Y, F(0))
         IN  /\ out = Vector2(r.X, r.Y)
             /\ quatA = Quaternion_Identity => out = vecA

-----------------------------------------------------------------------------
(* Slerp. *)

\* interpolation weights: the two ends, the middle, and one beyond the end
WeightSet == {F(0), F(1) // F(2), F(1), F(2)}

InitSlerp ==
    /\ op = "none"
    /\ quatA \in QuaternionSet
    /\ quatB \in QuaternionSet
    /\ num \in {[t |-> t] : t \in WeightSet}
    /\ vecA = Unused /\ vecB = Unused /\ vecC = Unused /\ mat = Unused
    /\ out = Unused /\ err = ""
    /\ scale = Unused /\ rot = Unused /\ trans = Unused

\* Slerp(from, to, t) with from = quatA, to = quatB
CallQuaternionSlerp ==
    /\ op = "none"
    /\ op' = "Quaternion::Slerp"
    /\ out' = Quaternion_Slerp(quatA, quatB, num.t)
    /\ UNCHANGED <<vecA, vecB, vecC, quatA, quatB, mat, num, err, scale, rot, trans>>

CallQuaternionLerp ==
    /\ op = "none" /\ quatA # Unused
    /\ op' = "Quaternion::Lerp"
    /\ out' = Quaternion_Lerp(quatA, quatB, num.t)
    /\ UNCHANGED <<vecA, vecB, vecC, quatA, quatB, mat, num, err, scale, rot, trans>>

NextSlerp ==
    \/ CallQuaternionSlerp
    \/ CallQuaternionLerp

SpecSlerp == InitSlerp /\ [][NextSlerp]_vars

\* C6: when Dot(a, b) >= 0.999, Slerp(a, b, t) is exactly Lerp(a, b, t); when
\* Dot(a, b) < 0.999, it is exp(ln(b * Inverse(a)) * t) * a.
C6_SlerpFallsBackToLerpWhenClose ==
    op = "Quaternion::Slerp" =>
        LET d == Quaternion_Dot(quatA, quatB)
        IN  /\ FGe(d, F(999) // F(1000)) => out = Quaternion_Lerp(quatA, quatB, num.t)
            /\ FLt(d, F(999) // F(1000)) =>
                 out = Quaternion_Mul(
                           QExp(Quaternion_Scale(
                                    QLn(Quaternion_Mul(quatB, Quaternion_Inverse(quatA))),
                                    num.t)),
                           quatA)

-----------------------------------------------------------------------------
(* Perspective projections. *)

\* near and far plane distances: negative, zero and positive
DepthSet == {F(i) : i \in -MaxCoord .. MaxCoord + 1}

\* fields of view: below 0, the two ends of the range, inside it, above it
FieldOfViewSet == {F(-1), F(0), F(1), F(3), MathHelper_Pi, F(4)}

ExtentSet == {F(1), F(2)}

InitPerspective ==
    /\ op = "none"
    /\ \E zN \in DepthSet, zF \in DepthSet :
         \/ \E w \in ExtentSet, h \in ExtentSet :
              num = [w |-> w, h |-> h, zN |-> zN, zF |-> zF]
         \/ \E fov \in FieldOfViewSet, aR \in ExtentSet :
              num = [fov |-> fov, aR |-> aR, zN |-> zN, zF |-> zF]
         \/ \E r \in ExtentSet, t \in ExtentSet :
              num = [l |-> F(-1), r |-> r, b |-> F(-1), t |-> t, zN |-> zN, zF |-> zF]
    /\ vecA = Unused /\ vecB = Unused /\ vecC = Unused
    /\ quatA = Unused /\ quatB = Unused /\ mat = Unused
    /\ out = Unused /\ err = ""
    /\ scale = Unused /\ rot = Unused /\ trans = Unused

\* the caller's state after a call that returned or threw res
Returned(res) ==
    /\ out' = IF IsThrow(res) THEN Unused ELSE res
    /\ err' = IF IsThrow(res) THEN res.what ELSE ""

CallCreatePerspective ==
    /\ op = "none" /\ DOMAIN num = {"w", "h", "zN", "zF"}
    /\ op' = "Matrix::CreatePerspective"
    /\ Returned(Matrix_CreatePerspective(num.w, num.h, num.zN, num.zF))
    /\ UNCHANGED <<vecA, vecB, vecC, quatA, quatB, mat, num, scale, rot, trans>>

CallCreatePerspectiveFieldOfView ==
    /\ op = "none" /\ DOMAIN num = {"fov", "aR", "zN", "zF"}
    /\ op' = "Matrix::CreatePerspectiveFieldOfView"
    /\ Returned(Matrix_CreatePerspectiveFieldOfView(num.fov, num.aR, num.zN, num.zF))
    /\ UNCHANGED <<vecA, vecB, vecC, quatA, quatB, mat, num, scale, rot, trans>>

CallCreatePerspectiveOffCenter ==
    /\ op = "none" /\ DOMAIN num = {"l", "r", "b", "t", "zN", "zF"}
    /\ op' = "Matrix::CreatePerspectiveOffCenter"
    /\ Returned(Matrix_CreatePerspectiveOffCenter(num.l, num.r, num.b, num.t, num.zN, num.zF))
    /\ UNCHANGED <<vecA, vecB, vecC, quatA, quatB, mat, num, scale, rot, trans>>

NextPerspective ==
    \/ CallCreatePerspective
    \/ CallCreatePerspectiveFieldOfView
    \/ CallCreatePerspectiveOffCenter

SpecPerspective == InitPerspective /\ [][NextPerspective]_vars

FieldOfViewError == "fieldOfView must be between 0 and Pi radians (0 and 180 degrees)"

DepthErrors ==
    {"zNear must be less than or equal to zFar", "zNear and zFar must be greater than 0"}

IsMatrix(m) == DOMAIN m = DOMAIN Matrix_Identity

DepthsValid == FLe(num.zN, num.zF) /\ FGe(num.zN, F(0)) /\ FGe(num.zF, F(0))

\* C7: CreatePerspectiveFieldOfView raises the out-of-range error for every
\* fieldOfView outside the open interval (0, Pi), fieldOfView = Pi and
\* fieldOfView = 0 included, and returns a matrix for every fieldOfView
\* strictly inside it when zNear and zFar are valid.
C7_FieldOfViewOpenInterval ==
    op = "Matrix::CreatePerspectiveFieldOfView" =>
        LET inside == FGt(num.fov, F(0)) /\ FLt(num.fov, MathHelper_Pi)
        IN  /\ ~inside => err = FieldOfViewError
            /\ inside => err # FieldOfViewError
            /\ (inside /\ DepthsValid) => (err = "" /\ IsMatrix(out))

-----------------------------------------------------------------------------
(* Decompose. *)

\* upper-left rows with a rational length: 0, 1, 2, 1, 5 and 3
DecomposeRows ==
    { <<F(0), F(0), F(0)>>,
      <<F(1), F(0), F(0)>>,
      <<F(0), F(-2), F(0)>>,
      <<F(0), F(0), F(1)>>,
      <<F(3), F(4), F(0)>>,
      <<F(1), F(2), F(2)>> }

DecomposeSet ==
    {Matrix(r1[1], r1[2], r1[3], F(0),
            r2[1], r2[2], r2[3], F(0),
            r3[1], r3[2], r3[3], F(0),
            x, F(2), F(-3), F(1)) :
        r1 \in DecomposeRows, r2 \in DecomposeRows, r3 \in DecomposeRows, x \in Coord}

InitDecompose ==
    /\ op = "none"
    /\ mat \in DecomposeSet
    /\ scale \in {Vector3(F(7), F(7), F(7)), Vector3(F(0), F(0), F(0))}
    /\ rot \in {Quaternion(F(1), F(0), F(0), F(0)), Quaternion_Identity}
    /\ trans = Vector3(F(9), F(9), F(9))
    /\ vecA = Unused /\ vecB = Unused /\ vecC = Unused
    /\ quatA = Unused /\ quatB = Unused /\ num = NoNum
    /\ out = Unused /\ err = ""

CallMatrixDecompose ==
    /\ op = "none" /\ mat # Unused /\ scale # Unused
    /\ op' = "Matrix::Decompose"
    /\ LET res == Matrix_Decompose(mat, scale, rot, trans)
       IN  /\ out' = res.ret
           /\ scale' = res.s
           /\ rot' = res.r
           /\ trans' = res.t
    /\ UNCHANGED <<vecA, vecB, vecC, quatA, quatB, mat, num, err>>

NextDecompose == CallMatrixDecompose

SpecDecompose == InitDecompose /\ [][NextDecompose]_vars

RowIsZero(x, y, z) == x = F(0) /\ y = F(0) /\ z = F(0)

\* len is the Euclidean length of (x, y, z)
IsRowLength(len, x, y, z) ==
    /\ FGe(len, F(0))
    /\ len ** len = ((x ** x) ++ (y ** y)) ++ (z ** z)

\* C9: Decompose returns false exactly when one of the rows (M11..M13),
\* (M21..M23), (M31..M33) has length zero; it then sets the rotation output to
\* Identity, leaves the scale and translation outputs as the caller passed
\* them and raises nothing. When it returns true the translation output is
\* (M41, M42, M43) and the scale output holds the three row lengths.
C9_DecomposeFailsExactlyOnZeroRow ==
    [][op' = "Matrix::Decompose" =>
        LET zeroRow == \/ RowIsZero(mat.M11, mat.M12, mat.M13)
                       \/ RowIsZero(mat.M21, mat.M22, mat.M23)
                       \/ RowIsZero(mat.M31, mat.M32, mat.M33)
        IN  /\ out' = ~zeroRow
            /\ err' = ""
            /\ zeroRow => /\ rot' = Quaternion_Identity
                          /\ scale' = scale
                          /\ trans' = trans
            /\ ~zeroRow => /\ trans' = Vector3(mat.M41, mat.M42, mat.M43)
                           /\ IsRowLength(scale'.X, mat.M11, mat.M12, mat.M13)
                           /\ IsRowLength(scale'.Y, mat.M21, mat.M22, mat.M23)
                           /\ IsRowLength(scale'.Z, mat.M31, mat.M32, mat.M33)]_vars

\* Decompose has returned false on a matrix whose second row alone is zero,
\* with the rotation reset and the caller's scale and translation in place
C9_Witness ==
    /\ op = "Matrix::Decompose"
    /\ out = FALSE
    /\ ~RowIsZero(mat.M11, mat.M12, mat.M13)
    /\ RowIsZero(mat.M21, mat.M22, mat.M23)
    /\ ~RowIsZero(mat.M31, mat.M32, mat.M33)
    /\ rot = Quaternion_Identity
    /\ scale = Vector3(F(7), F(7), F(7))
    /\ trans = Vector3(F(9), F(9), F(9))

-----------------------------------------------------------------------------
(* Invert. *)

InvertRows ==
    MatrixRows \cup { <<F(1), F(1), F(0), F(-1)>>, <<F(0), F(2), F(1), F(0)>> }

InvertSet ==
    {MatrixOfRows(r1, r2, r3, r4) :
        r1 \in InvertRows, r2 \in InvertRows, r3 \in InvertRows, r4 \in InvertRows}

InitInvert ==
    /\ op = "none"
    /\ mat \in InvertSet
    /\ vecA = Unused /\ vecB = Unused /\ vecC = Unused
    /\ quatA = Unused /\ quatB = Unused /\ num = NoNum
    /\ out = Unused /\ err = ""
    /\ scale = Unused /\ rot = Unused /\ trans = Unused

CallMatrixInvert ==
    /\ op = "none" /\ mat # Unused
    /\ op' = "Matrix::Invert"
    /\ out' = Matrix_Invert(mat)
    /\ UNCHANGED <<vecA, vecB, vecC, quatA, quatB, mat, num, err, scale, rot, trans>>

\* M * Invert(M), on the inverse just computed
CallMatrixTimesInverse ==
    /\ op = "Matrix::Invert"
    /\ op' = "M * Matrix::Invert(M)"
    /\ out' = Matrix_Mul(mat, out)
    /\ UNCHANGED <<vecA, vecB, vecC, quatA, quatB, mat, num, err, scale, rot, trans>>

\* Invert(M) * M, on the inverse just computed
CallInverseTimesMatrix ==
    /\ op = "Matrix::Invert"
    /\ op' = "Matrix::Invert(M) * M"
    /\ out' = Matrix_Mul(out, mat)
    /\ UNCHANGED <<vecA, vecB, vecC, quatA, quatB, mat, num, err, scale, rot, trans>>

CallMatrixDeterminant ==
    /\ op = "none" /\ mat # Unused
    /\ op' = "Matrix::Determinant"
    /\ out' = Matrix_Determinant(mat)
    /\ UNCHANGED <<vecA, vecB, vecC, quatA, quatB, mat, num, err, scale, rot, trans>>

NextInvert ==
    \/ CallMatrixInvert
    \/ CallMatrixDeterminant
    \/ CallMatrixTimesInverse
    \/ CallInverseTimesMatrix

SpecInvert == InitInvert /\ [][NextInvert]_vars

\* C10: for a matrix with nonzero determinant, M * Invert(M) and
\* Invert(M) * M are Identity, exactly so for a matrix of integer entries
\* with determinant 1 or -1; equivalently M times the adjugate that Invert
\* builds is Determinant(M) times Identity, on either side.
C10_InvertIsTwoSidedInverse ==
    LET det == Matrix_Determinant(mat)
    IN  /\ (op = "Matrix::Invert" /\ det # F(0)) =>
              /\ Matrix_Mul(mat, Matrix_InvertAdj(mat)) = Matrix_Scale(Matrix_Identity, det)
              /\ Matrix_Mul(Matrix_InvertAdj(mat), mat) = Matrix_Scale(Matrix_Identity, det)
              /\ out = Matrix_Scale(Matrix_InvertAdj(mat), F(1) // det)
        /\ (op \in {"M * Matrix::Invert(M)", "Matrix::Invert(M) * M"} /\ det \in {F(1), F(-1)}) =>
              out = Matrix_Identity

\* the product of a matrix of determinant -1 that is no permutation matrix
\* with its inverse has been formed
C10_Witness ==
    /\ op = "M * Matrix::Invert(M)"
    /\ Matrix_Determinant(mat) = F(-1)
    /\ mat.M11 = F(2)
    /\ out = Matrix_Identity

-----------------------------------------------------------------------------
(* Quaternion product and inverse. *)

QuaternionI == Quaternion(F(1), F(0), F(0), F(0))
QuaternionJ == Quaternion(F(0), F(1), F(0), F(0))
QuaternionK == Quaternion(F(0), F(0), F(1), F(0))

\* right-hand operands: the units, one negated unit and one with no zero part
QuaternionOperands ==
    { QuaternionI, QuaternionJ, QuaternionK, Quaternion_Identity,
      Quaternion(F(0), F(0), F(-1), F(0)),
      Quaternion(F(1), F(-1), F(2), F(1)) }

InitQuaternion ==
    /\ op = "none"
    /\ quatA \in QuaternionSet
    /\ quatB \in QuaternionOperands
    /\ vecA = Unused /\ vecB = Unused /\ vecC = Unused /\ mat = Unused
    /\ num = NoNum /\ out = Unused /\ err = ""
    /\ scale = Unused /\ rot = Unused /\ trans = Unused

CallQuaternionInverse ==
    /\ op = "none"
    /\ op' = "Quaternion::Inverse"
    /\ out' = Quaternion_Inverse(quatA)
    /\ UNCHANGED <<vecA, vecB, vecC, quatA, quatB, mat, num, err, scale, rot, trans>>

\* q * Inverse(q), on the inverse just computed
CallQuaternionTimesInverse ==
    /\ op = "Quaternion::Inverse"
    /\ op' = "q * Quaternion::Inverse(q)"
    /\ out' = Quaternion_Mul(quatA, out)
    /\ UNCHANGED <<vecA, vecB, vecC, quatA, quatB, mat, num, err, scale, rot, trans>>

\* Inverse(q) * q, on the inverse just computed
CallInverseTimesQuaternion ==
    /\ op = "Quaternion::Inverse"
    /\ op' = "Quaternion::Inverse(q) * q"
    /\ out' = Quaternion_Mul(out, quatA)
    /\ UNCHANGED <<vecA, vecB, vecC, quatA, quatB, mat, num, err, scale, rot, trans>>

CallQuaternionMul ==
    /\ op = "none"
    /\ op' = "Quaternion::operator*"
    /\ out' = Quaternion_Mul(quatA, quatB)
    /\ UNCHANGED <<vecA, vecB, vecC, quatA, quatB, mat, num, err, scale, rot, trans>>

\* Concatenate(f, s) with f = quatA, s = quatB
CallQuaternionConcatenate ==
    /\ op = "none"
    /\ op' = "Quaternion::Concatenate"
    /\ out' = Quaternion_Concatenate(quatA, quatB)
    /\ UNCHANGED <<vecA, vecB, vecC, quatA, quatB, mat, num, err, scale, rot, trans>>

NextQuaternion ==
    \/ CallQuaternionInverse
    \/ CallQuaternionTimesInverse
    \/ CallInverseTimesQuaternion
    \/ CallQuaternionMul
    \/ CallQuaternionConcatenate

SpecQuaternion == InitQuaternion /\ [][NextQuaternion]_vars

\* x^2 + y^2 + z^2 + w^2
SquaredNorm(q) == (q.X ** q.X) ++ (q.Y ** q.Y) ++ (q.Z ** q.Z) ++ (q.W ** q.W)

\* C11: for every quaternion q of nonzero length, Inverse(q) is Conjugate(q)
\* divided component-wise by LengthSquared(q), q * Inverse(q) and
\* Inverse(q) * q are the identity quaternion (0,0,0,1), and for a unit q
\* Inverse(q) is Conjugate(q).
C11_InverseIsConjugateOverLengthSquared ==
    LET n == SquaredNorm(quatA)
    IN  n # F(0) =>
          /\ op = "Quaternion::Inverse" =>
                /\ out = Quaternion(FNeg(quatA.X) // n, FNeg(quatA.Y) // n,
                                    FNeg(quatA.Z) // n, quatA.W // n)
                /\ n = F(1) => out = Quaternion_Conjugate(quatA)
          /\ op \in {"q * Quaternion::Inverse(q)", "Quaternion::Inverse(q) * q"} =>
                out = Quaternion(F(0), F(0), F(0), F(1))

\* the product of a quaternion of length 2 with its inverse has been formed
C11_Witness ==
    /\ op = "q * Quaternion::Inverse(q)"
    /\ quatA = Quaternion(F(1), F(1), F(-1), F(1))
    /\ out = Quaternion(F(0), F(0), F(0), F(1))

\* C19: quaternion multiplication is the Hamilton product and depends on the
\* order of its operands: i * j = k and j * i = -k, Identity is a unit on
\* both sides, and Concatenate(f, s) is s * f, which is not f * s whenever f
\* and s do not commute.
C19_HamiltonProductAndConcatenate ==
    /\ op = "Quaternion::operator*" =>
          /\ out = Hamilton(quatA, quatB)
          /\ (quatA = QuaternionI /\ quatB = QuaternionJ) => out = QuaternionK
          /\ (quatA = QuaternionJ /\ quatB = QuaternionI) =>
                out = Quaternion(F(0), F(0), F(-1), F(0))
          /\ quatB = Quaternion_Identity => out = quatA
          /\ quatA = Quaternion_Identity => out = quatB
    /\ op = "Quaternion::Concatenate" =>
          /\ out = Hamilton(quatB, quatA)
          /\ Hamilton(quatA, quatB) # Hamilton(quatB, quatA) =>
                out # Quaternion_Mul(quatA, quatB)

\* Concatenate(i, j) has returned j * i = -k
C19_Witness ==
    /\ op = "Quaternion::Concatenate"
    /\ quatA = QuaternionI /\ quatB = QuaternionJ
    /\ out = Quaternion(F(0), F(0), F(-1), F(0))

-----------------------------------------------------------------------------
(* Directional accessors of Matrix. *)

AccessorMatrices ==
    { Matrix_Identity,
      Matrix(F(1), F(2), F(3), F(4), F(5), F(6), F(7), F(8),
             F(9), F(10), F(11), F(12), F(13), F(14), F(15), F(16)) }

InitAccessor ==
    /\ op = "none"
    /\ mat \in AccessorMatrices
    /\ vecA \in Vector3Set
    /\ vecB = Unused /\ vecC = Unused /\ quatA = Unused /\ quatB = Unused
    /\ num = NoNum /\ out = Unused /\ err = ""
    /\ scale = Unused /\ rot = Unused /\ trans = Unused

\* m.Backward(v) with v = vecA
CallMatrixSetBackward ==
    /\ op = "none"
    /\ op' = "Matrix::Backward(const Vector3&)"
    /\ mat' = Matrix_SetBackward(mat, vecA)
    /\ UNCHANGED <<vecA, vecB, vecC, quatA, quatB, num, out, err, scale, rot, trans>>

\* m.Backward(), on the matrix as constructed or right after m.Backward(v)
CallMatrixBackward ==
    /\ op \in {"none", "Matrix::Backward(const Vector3&)"}
    /\ op' = "Matrix::Backward()"
    /\ out' = Matrix_Backward(mat)
    /\ UNCHANGED <<vecA, vecB, vecC, quatA, quatB, mat, num, err, scale, rot, trans>>

\* m.Down(v) with v = vecA
CallMatrixSetDown ==
    /\ op = "none"
    /\ op' = "Matrix::Down(const Vector3&)"
    /\ mat' = Matrix_SetDown(mat, vecA)
    /\ UNCHANGED <<vecA, vecB, vecC, quatA, quatB, num, out, err, scale, rot, trans>>

\* m.Down(), on the matrix as constructed or right after m.Down(v)
CallMatrixDown ==
    /\ op \in {"none", "Matrix::Down(const Vector3&)"}
    /\ op' = "Matrix::Down()"
    /\ out' = Matrix_Down(mat)
    /\ UNCHANGED <<vecA, vecB, vecC, quatA, quatB, mat, num, err, scale, rot, trans>>

\* m.Forward(v) with v = vecA
CallMatrixSetForward ==
    /\ op = "none"
    /\ op' = "Matrix::Forward(const Vector3&)"
    /\ mat' = Matrix_SetForward(mat, vecA)
    /\ UNCHANGED <<vecA, vecB, vecC, quatA, quatB, num, out, err, scale, rot, trans>>

\* m.Forward(), on the matrix as constructed or right after m.Forward(v)
CallMatrixForward ==
    /\ op \in {"none", "Matrix::Forward(const Vector3&)"}
    /\ op' = "Matrix::Forward()"
    /\ out' = Matrix_Forward(mat)
    /\ UNCHANGED <<vecA, vecB, vecC, quatA, quatB, mat, num, err, scale, rot, trans>>

\* m.Left(v) with v = vecA
CallMatrixSetLeft ==
    /\ op = "none"
    /\ op' = "Matrix::Left(const Vector3&)"
    /\ mat' = Matrix_SetLeft(mat, vecA)
    /\ UNCHANGED <<vecA, vecB, vecC, quatA, quatB, num, out, err, scale, rot, trans>>

\* m.Left(), on the matrix as constructed or right after m.Left(v)
CallMatrixLeft ==
    /\ op \in {"none", "Matrix::Left(const Vector3&)"}
    /\ op' = "Matrix::Left()"
    /\ out' = Matrix_Left(mat)
    /\ UNCHANGED <<vecA, vecB, vecC, quatA, quatB, mat, num, err, scale, rot, trans>>

\* m.Right(v) with v = vecA
CallMatrixSetRight ==
    /\ op = "none"
    /\ op' = "Matrix::Right(const Vector3&)"
    /\ mat' = Matrix_SetRight(mat, vecA)
    /\ UNCHANGED <<vecA, vecB, vecC, quatA, quatB, num, out, err, scale, rot, trans>>

\* m.Right(), on the matrix as constructed or right after m.Right(v)
CallMatrixRight ==
    /\ op \in {"none", "Matrix::Right(const Vector3&)"}
    /\ op' = "Matrix::Right()"
    /\ out' = Matrix_Right(mat)
    /\ UNCHANGED <<vecA, vecB, vecC, quatA, quatB, mat, num, err, scale, rot, trans>>

\* m.Translation(v) with v = vecA
CallMatrixSetTranslation ==
    /\ op = "none"
    /\ op' = "Matrix::Translation(const Vector3&)"
    /\ mat' = Matrix_SetTranslation(mat, vecA)
    /\ UNCHANGED <<vecA, vecB, vecC, quatA, quatB, num, out, err, scale, rot, trans>>

\* m.Translation(), on the matrix as constructed or right after m.Translation(v)
CallMatrixTranslation ==
    /\ op \in {"none", "Matrix::Translation(const Vector3&)"}
    /\ op' = "Matrix::Translation()"
    /\ out' = Matrix_Translation(mat)
    /\ UNCHANGED <<vecA, vecB, vecC, quatA, quatB, mat, num, err, scale, rot, trans>>

\* m.Up(v) with v = vecA
CallMatrixSetUp ==
    /\ op = "none"
    /\ op' = "Matrix::Up(const Vector3&)"
    /\ mat' = Matrix_SetUp(mat, vecA)
    /\ UNCHANGED <<vecA, vecB, vecC, quatA, quatB, num, out, err, scale, rot, trans>>

\* m.Up(), on the matrix as constructed or right after m.Up(v)
CallMatrixUp ==
    /\ op \in {"none", "Matrix::Up(const Vector3&)"}
    /\ op' = "Matrix::Up()"
    /\ out' = Matrix_Up(mat)
    /\ UNCHANGED <<vecA, vecB, vecC, quatA, quatB, mat, num, err, scale, rot, trans>>

NextAccessor ==
    \/ CallMatrixSetBackward
    \/ CallMatrixBackward
    \/ CallMatrixSetDown
    \/ CallMatrixDown
    \/ CallMatrixSetForward
    \/ CallMatrixForward
    \/ CallMatrixSetLeft
    \/ CallMatrixLeft
    \/ CallMatrixSetRight
    \/ CallMatrixRight
    \/ CallMatrixSetTranslation
    \/ CallMatrixTranslation
    \/ CallMatrixSetUp
    \/ CallMatrixUp

SpecAccessor == InitAccessor /\ [][NextAccessor]_vars

\* C12: for each of Backward, Forward, Left, Right, Up, Down and Translation,
\* reading through the accessor right after m.A(v) returns v; and the getters
\* of a pair are negations of each other: Forward() = -Backward(),
\* Left() = -Right(), Down() = -Up().
C12_AccessorRoundTrip ==
    [][
       /\ (op = "Matrix::Backward(const Vector3&)" /\ op' = "Matrix::Backward()") => out' = vecA
       /\ (op = "Matrix::Down(const Vector3&)" /\ op' = "Matrix::Down()") => out' = vecA
       /\ (op = "Matrix::Forward(const Vector3&)" /\ op' = "Matrix::Forward()") => out' = vecA
       /\ (op = "Matrix::Left(const Vector3&)" /\ op' = "Matrix::Left()") => out' = vecA
       /\ (op = "Matrix::Right(const Vector3&)" /\ op' = "Matrix::Right()") => out' = vecA
       /\ (op = "Matrix::Translation(const Vector3&)" /\ op' = "Matrix::Translation()") => out' = vecA
       /\ (op = "Matrix::Up(const Vector3&)" /\ op' = "Matrix::Up()") => out' = vecA
       /\ op' = "Matrix::Forward()" => out' = Vector3_Neg(Matrix_Backward(mat))
       /\ op' = "Matrix::Left()" => out' = Vector3_Neg(Matrix_Right(mat))
       /\ op' = "Matrix::Down()" => out' = Vector3_Neg(Matrix_Up(mat))
    ]_vars

-----------------------------------------------------------------------------
(* Rotation matrix to quaternion. *)

\* unit quaternions with rational components
UnitQuaternions ==
    { Quaternion(F(3) // F(5), F(0), F(0), F(4) // F(5)),
      Quaternion(F(0), F(4) // F(5), F(0), F(3) // F(5)),
      Quaternion(F(0), F(0), F(-3) // F(5), F(4) // F(5)),
      Quaternion(F(1) // F(2), F(1) // F(2), F(1) // F(2), F(1) // F(2)),
      Quaternion(F(-1) // F(2), F(1) // F(2), F(-1) // F(2), F(1) // F(2)),
      Quaternion(F(2) // F(3), F(1) // F(3), F(0), F(2) // F(3)),
      Quaternion(F(1) // F(3), F(2) // F(3), F(0), F(-2) // F(3)) }

InitRotation ==
    /\ op = "none"
    /\ quatA \in QuaternionSet \cup UnitQuaternions
    /\ mat = Matrix_Identity
    /\ vecA = Unused /\ vecB = Unused /\ vecC = Unused /\ quatB = Unused
    /\ num = NoNum /\ out = Unused /\ err = ""
    /\ scale = Unused /\ rot = Unused /\ trans = Unused

CallMatrixCreateFromQuaternion ==
    /\ op = "none"
    /\ op' = "Matrix::CreateFromQuaternion"
    /\ mat' = Matrix_CreateFromQuaternion(quatA)
    /\ UNCHANGED <<vecA, vecB, vecC, quatA, quatB, num, out, err, scale, rot, trans>>

\* CreateFromRotationMatrix on Matrix::Identity or on the matrix just built
CallQuaternionCreateFromRotationMatrix ==
    /\ op \in {"none", "Matrix::CreateFromQuaternion"}
    /\ op' = "Quaternion::CreateFromRotationMatrix"
    /\ out' = Quaternion_CreateFromRotationMatrix(mat)
    /\ UNCHANGED <<vecA, vecB, vecC, quatA, quatB, mat, num, err, scale, rot, trans>>

NextRotation ==
    \/ CallMatrixCreateFromQuaternion
    \/ CallQuaternionCreateFromRotationMatrix

SpecRotation == InitRotation /\ [][NextRotation]_vars

\* C13: CreateFromRotationMatrix(Matrix::Identity) is Quaternion::Identity,
\* and for every unit quaternion q with W > 0,
\* CreateFromRotationMatrix(CreateFromQuaternion(q)) is q.
C13_RotationMatrixRoundTrip ==
    [][op' = "Quaternion::CreateFromRotationMatrix" =>
          /\ op = "none" => out' = Quaternion_Identity
          /\ (/\ op = "Matrix::CreateFromQuaternion"
              /\ SquaredNorm(quatA) = F(1)
              /\ FGt(quatA.W, F(0))) => out' = quatA]_vars

-----------------------------------------------------------------------------
(* Linear interpolation. *)

\* component values: zero, one, a value far below one, a negative and a
\* larger one; each is a float of MantissaBits bits
LerpSeq == <<F(0), F(1), F(1) // F(64), F(-1), F(3)>>

\* component j of the i-th operand
LerpValue(i, j) == LerpSeq[((i + j) % Len(LerpSeq)) + 1]

LerpIndex == 0 .. Len(LerpSeq) - 1

LerpVector2(i) == Vector2(LerpValue(i, 0), LerpValue(i, 1))
LerpVector3(i) == Vector3(LerpValue(i, 0), LerpValue(i, 1), LerpValue(i, 2))
LerpVector4(i) == Vector4(LerpValue(i, 0), LerpValue(i, 1), LerpValue(i, 2), LerpValue(i, 3))
LerpQuaternion(i) == Quaternion(LerpValue(i, 0), LerpValue(i, 1), LerpValue(i, 2), LerpValue(i, 3))
LerpMatrix(i) ==
    Matrix(LerpValue(i, 0), LerpValue(i, 1), LerpValue(i, 2), LerpValue(i, 3),
           LerpValue(i, 4), LerpValue(i, 5), LerpValue(i, 6), LerpValue(i, 7),
           LerpValue(i, 8), LerpValue(i, 9), LerpValue(i, 10), LerpValue(i, 11),
           LerpValue(i, 12), LerpValue(i, 13), LerpValue(i, 14), LerpValue(i, 15))

InitLerp ==
    /\ op = "none"
    /\ \E i \in LerpIndex, k \in LerpIndex, t \in WeightSet :
         \/ /\ num = [a |-> LerpValue(i, 0), b |-> LerpValue(k, 0), t |-> t]
            /\ vecA = Unused /\ vecB = Unused /\ quatA = Unused /\ quatB = Unused
         \/ /\ num = [t |-> t]
            /\ \/ vecA = LerpVector2(i) /\ vecB = LerpVector2(k)
               \/ vecA = LerpVector3(i) /\ vecB = LerpVector3(k)
               \/ vecA = LerpVector4(i) /\ vecB = LerpVector4(k)
            /\ quatA = Unused /\ quatB = Unused
         \/ /\ num = [t |-> t]
            /\ quatA = LerpQuaternion(i) /\ quatB = LerpQuaternion(k)
            /\ vecA = Unused /\ vecB = Unused
         \/ /\ num = [from |-> LerpMatrix(i), to |-> LerpMatrix(k), t |-> t]
            /\ vecA = Unused /\ vecB = Unused /\ quatA = Unused /\ quatB = Unused
    /\ vecC = Unused /\ mat = Unused
    /\ out = Unused /\ err = ""
    /\ scale = Unused /\ rot = Unused /\ trans = Unused

CallMathHelperLerp ==
    /\ op = "none" /\ DOMAIN num = {"a", "b", "t"}
    /\ op' = "MathHelper::Lerp"
    /\ out' = MathHelper_Lerp(num.a, num.b, num.t)
    /\ UNCHANGED <<vecA, vecB, vecC, quatA, quatB, mat, num, err, scale, rot, trans>>

CallVector2Lerp ==
    /\ op = "none" /\ IsVector2(vecA)
    /\ op' = "Vector2::Lerp"
    /\ out' = Vector2_Lerp(vecA, vecB, num.t)
    /\ UNCHANGED <<vecA, vecB, vecC, quatA, quatB, mat, num, err, scale, rot, trans>>

CallVector3Lerp ==
    /\ op = "none" /\ IsVector3(vecA)
    /\ op' = "Vector3::Lerp"
    /\ out' = Vector3_Lerp(vecA, vecB, num.t)
    /\ UNCHANGED <<vecA, vecB, vecC, quatA, quatB, mat, num, err, scale, rot, trans>>

CallVector4Lerp ==
    /\ op = "none" /\ IsVector4(vecA)
    /\ op' = "Vector4::Lerp"
    /\ out' = Vector4_Lerp(vecA, vecB, num.t)
    /\ UNCHANGED <<vecA, vecB, vecC, quatA, quatB, mat, num, err, scale, rot, trans>>

CallMatrixLerp ==
    /\ op = "none" /\ DOMAIN num = {"from", "to", "t"}
    /\ op' = "Matrix::Lerp"
    /\ out' = Matrix_Lerp(num.from, num.to, num.t)
    /\ UNCHANGED <<vecA, vecB, vecC, quatA, quatB, mat, num, err, scale, rot, trans>>

NextLerp ==
    \/ CallMathHelperLerp
    \/ CallVector2Lerp
    \/ CallVector3Lerp
    \/ CallVector4Lerp
    \/ CallQuaternionLerp
    \/ CallMatrixLerp

SpecLerp == InitLerp /\ [][NextLerp]_vars

LerpOps ==
    {"Vector2::Lerp", "Vector3::Lerp", "Vector4::Lerp", "Quaternion::Lerp", "Matrix::Lerp"}

\* the two interpolated operands of the call made
LerpFrom ==
    IF op = "Matrix::Lerp" THEN num.from
    ELSE IF op = "Quaternion::Lerp" THEN quatA ELSE vecA

LerpTo ==
    IF op = "Matrix::Lerp" THEN num.to
    ELSE IF op = "Quaternion::Lerp" THEN quatB ELSE vecB

\* a + (b - a) * t as the float operations evaluate it
RoundedLerp(a, b, t) == Fl(a ++ Fl(Fl(b -- a) ** t))

-----------------------------------------------------------------------------
(* Transpose. *)

InitTranspose ==
    /\ op = "none"
    /\ mat \in InvertSet \cup AccessorMatrices
    /\ vecA = Unused /\ vecB = Unused /\ vecC = Unused
    /\ quatA = Unused /\ quatB = Unused /\ num = NoNum
    /\ out = Unused /\ err = ""
    /\ scale = Unused /\ rot = Unused /\ trans = Unused

CallMatrixTranspose ==
    /\ op = "none" /\ mat # Unused
    /\ op' = "Matrix::Transpose"
    /\ out' = Matrix_Transpose(mat)
    /\ UNCHANGED <<vecA, vecB, vecC, quatA, quatB, mat, num, err, scale, rot, trans>>

\* Transpose(Transpose(M)), on the transpose just computed
CallMatrixTransposeAgain ==
    /\ op = "Matrix::Transpose"
    /\ op' = "Matrix::Transpose(Matrix::Transpose(M))"
    /\ out' = Matrix_Transpose(out)
    /\ UNCHANGED <<vecA, vecB, vecC, quatA, quatB, mat, num, err, scale, rot, trans>>

NextTranspose ==
    \/ CallMatrixTranspose
    \/ CallMatrixTransposeAgain

SpecTranspose == InitTranspose /\ [][NextTranspose]_vars

EntryName ==
    << <<"M11", "M12", "M13", "M14">>,
       <<"M21", "M22", "M23", "M24">>,
       <<"M31", "M32", "M33", "M34">>,
       <<"M41", "M42", "M43", "M44">> >>

\* entry (i, j) of m
Entry(m, i, j) == m[EntryName[i][j]]

\* C15: for every matrix M, Transpose(Transpose(M)) is M exactly, entry (i, j)
\* of Transpose(M) is entry (j, i) of M, and Transpose does not modify its
\* argument.
C15_TransposeInvolution ==
    [][/\ op' = "Matrix::Transpose" =>
             /\ mat' = mat
             /\ \A i \in 1 .. 4, j \in 1 .. 4 : Entry(out', i, j) = Entry(mat, j, i)
       /\ op' = "Matrix::Transpose(Matrix::Transpose(M))" =>
             /\ mat' = mat
             /\ out' = mat]_vars

\* a matrix of sixteen distinct entries has been transposed twice
C15_Witness ==
    /\ op = "Matrix::Transpose(Matrix::Transpose(M))"
    /\ mat.M12 = F(2) /\ mat.M21 = F(5) /\ mat.M14 = F(4) /\ mat.M41 = F(13)
    /\ out = mat

-----------------------------------------------------------------------------
(* Cross product. *)

InitCross ==
    /\ op = "none"
    /\ vecA \in Vector3Set
    /\ vecB \in Vector3Set
    /\ vecC = Unused /\ quatA = Unused /\ quatB = Unused /\ mat = Unused
    /\ num = NoNum /\ out = Unused /\ err = ""
    /\ scale = Unused /\ rot = Unused /\ trans = Unused

\* Cross(a, b) with a = vecA, b = vecB
CallVector3Cross ==
    /\ op = "none" /\ IsVector3(vecA) /\ IsVector3(vecB)
    /\ op' = "Vector3::Cross"
    /\ out' = Vector3_Cross(vecA, vecB)
    /\ UNCHANGED <<vecA, vecB, vecC, quatA, quatB, mat, num, err, scale, rot, trans>>

\* Dot(Cross(a, b), a), on the cross product just computed
CallVector3DotCrossFirst ==
    /\ op = "Vector3::Cross"
    /\ op' = "Vector3::Dot(Cross(a, b), a)"
    /\ out' = Vector3_Dot(out, vecA)
    /\ UNCHANGED <<vecA, vecB, vecC, quatA, quatB, mat, num, err, scale, rot, trans>>

\* Dot(Cross(a, b), b), on the cross product just computed
CallVector3DotCrossSecond ==
    /\ op = "Vector3::Cross"
    /\ op' = "Vector3::Dot(Cross(a, b), b)"
    /\ out' = Vector3_Dot(out, vecB)
    /\ UNCHANGED <<vecA, vecB, vecC, quatA, quatB, mat, num, err, scale, rot, trans>>

NextCross ==
    \/ CallVector3Cross
    \/ CallVector3DotCrossFirst
    \/ CallVector3DotCrossSecond

SpecCross == InitCross /\ [][NextCross]_vars

\* C16: Cross is the right-handed cross product: Cross(UnitX, UnitY) = UnitZ,
\* Cross(UnitY, UnitZ) = UnitX, Cross(UnitZ, UnitX) = UnitY, and for all a, b:
\* Cross(a, b) = -Cross(b, a) and Dot(Cross(a, b), a) = Dot(Cross(a, b), b) = 0.
C16_CrossIsRightHanded ==
    /\ op = "Vector3::Cross" =>
          /\ (vecA = Vector3_UnitX /\ vecB = Vector3_UnitY) => out = Vector3_UnitZ
          /\ (vecA = Vector3_UnitY /\ vecB = Vector3_UnitZ) => out = Vector3_UnitX
          /\ (vecA = Vector3_UnitZ /\ vecB = Vector3_UnitX) => out = Vector3_UnitY
          /\ out = Vector3_Neg(Vector3_Cross(vecB, vecA))
    /\ op \in {"Vector3::Dot(Cross(a, b), a)", "Vector3::Dot(Cross(a, b), b)"} =>
          out = F(0)

\* Cross(UnitZ, UnitX) has returned UnitY
C16_Witness ==
    /\ op = "Vector3::Cross"
    /\ vecA = Vector3_UnitZ /\ vecB = Vector3_UnitX
    /\ out = Vector3_UnitY

-----------------------------------------------------------------------------
(* Rotation, scale and translation constructors. *)

AngleSet == {F(0), F(1), F(-1), MathHelper_Pi}

ScaleSet == {F(0), F(1), F(2), F(-1)}

InitCreate ==
    /\ op = "none"
    /\ num \in {[angle |-> a, scale |-> s] : a \in AngleSet, s \in ScaleSet}
    /\ vecA \in Vector3Set
    /\ vecB = Unused /\ vecC = Unused /\ quatA = Unused /\ quatB = Unused
    /\ mat = Unused /\ out = Unused /\ err = ""
    /\ scale = Unused /\ rot = Unused /\ trans = Unused

CallMatrixCreateRotationX ==
    /\ op = "none" /\ DOMAIN num = {"angle", "scale"}
    /\ op' = "Matrix::CreateRotationX"
    /\ out' = Matrix_CreateRotationX(num.angle)
    /\ UNCHANGED <<vecA, vecB, vecC, quatA, quatB, mat, num, err, scale, rot, trans>>

CallMatrixCreateRotationY ==
    /\ op = "none" /\ DOMAIN num = {"angle", "scale"}
    /\ op' = "Matrix::CreateRotationY"
    /\ out' = Matrix_CreateRotationY(num.angle)
    /\ UNCHANGED <<vecA, vecB, vecC, quatA, quatB, mat, num, err, scale, rot, trans>>

CallMatrixCreateRotationZ ==
    /\ op = "none" /\ DOMAIN num = {"angle", "scale"}
    /\ op' = "Matrix::CreateRotationZ"
    /\ out' = Matrix_CreateRotationZ(num.angle)
    /\ UNCHANGED <<vecA, vecB, vecC, quatA, quatB, mat, num, err, scale, rot, trans>>

\* CreateTranslation(xT, yT, zT) with the components of vecA
CallMatrixCreateTranslation ==
    /\ op = "none" /\ DOMAIN num = {"angle", "scale"}
    /\ op' = "Matrix::CreateTranslation"
    /\ out' = Matrix_CreateTranslation(vecA.X, vecA.Y, vecA.Z)
    /\ UNCHANGED <<vecA, vecB, vecC, quatA, quatB, mat, num, err, scale, rot, trans>>

CallMatrixCreateScale ==
    /\ op = "none" /\ DOMAIN num = {"angle", "scale"}
    /\ op' = "Matrix::CreateScale(float)"
    /\ out' = Matrix_CreateScale(num.scale)
    /\ UNCHANGED <<vecA, vecB, vecC, quatA, quatB, mat, num, err, scale, rot, trans>>

\* CreateScale(scaleX, scaleY, scaleZ) with the components of vecA
CallMatrixCreateScale3 ==
    /\ op = "none" /\ DOMAIN num = {"angle", "scale"}
    /\ op' = "Matrix::CreateScale(float, float, float)"
    /\ out' = Matrix_CreateScale3(vecA.X, vecA.Y, vecA.Z)
    /\ UNCHANGED <<vecA, vecB, vecC, quatA, quatB, mat, num, err, scale, rot, trans>>

NextCreate ==
    \/ CallMatrixCreateRotationX
    \/ CallMatrixCreateRotationY
    \/ CallMatrixCreateRotationZ
    \/ CallMatrixCreateTranslation
    \/ CallMatrixCreateScale
    \/ CallMatrixCreateScale3

SpecCreate == InitCreate /\ [][NextCreate]_vars

\* C17: the degenerate constructors return the identity matrix:
\* CreateRotationX(0), CreateRotationY(0), CreateRotationZ(0),
\* CreateTranslation(0,0,0), CreateScale(1) and CreateScale(1,1,1) are each
\* Matrix::Identity.
C17_DegenerateConstructorsGiveIdentity ==
    LET I == Matrix(F(1), F(0), F(0), F(0), F(0), F(1), F(0), F(0),
                    F(0), F(0), F(1), F(0), F(0), F(0), F(0), F(1))
        rotations == {"Matrix::CreateRotationX", "Matrix::CreateRotationY",
                      "Matrix::CreateRotationZ"}
    IN  /\ (op \in rotations /\ num.angle = F(0)) => out = I
        /\ (op = "Matrix::CreateTranslation" /\ vecA = Vector3(F(0), F(0), F(0))) => out = I
        /\ (op = "Matrix::CreateScale(float)" /\ num.scale = F(1)) => out = I
        /\ (op = "Matrix::CreateScale(float, float, float)"
            /\ vecA = Vector3(F(1), F(1), F(1))) => out = I

\* CreateRotationY(0) has returned the identity matrix
C17_Witness ==
    /\ op = "Matrix::CreateRotationY"
    /\ num.angle = F(0)
    /\ out = Matrix_Identity

-----------------------------------------------------------------------------
(* TransformNormal. *)

NormalMatrices ==
    AccessorMatrices \cup
    { Matrix(F(2), F(-1), F(0), F(3), F(1), F(1), F(-2), F(0),
             F(0), F(4), F(1), F(-1), F(-3), F(2), F(5), F(1)) }

\* fourth rows (M41, M42, M43, M44) a caller may write into the matrix
FourthRows ==
    { Vector4(F(0), F(0), F(0), F(1)),
      Vector4(F(1), F(-2), F(3), F(1)),
      Vector4(F(5), F(5), F(5), F(5)) }

InitNormal ==
    /\ op = "none"
    /\ vecA \in Vector2Set \cup Vector3Set \cup Vector4Set
    /\ vecB \in FourthRows
    /\ mat \in NormalMatrices
    /\ vecC = Unused /\ quatA = Unused /\ quatB = Unused
    /\ num = NoNum /\ out = Unused /\ err = ""
    /\ scale = Unused /\ rot = Unused /\ trans = Unused

\* m with its fourth row overwritten by r
WithFourthRow(m, r) == [m EXCEPT !.M41 = r.X, !.M42 = r.Y, !.M43 = r.Z, !.M44 = r.W]

\* m with M41 = M42 = M43 = 0
WithoutTranslation(m) == [m EXCEPT !.M41 = F(0), !.M42 = F(0), !.M43 = F(0)]

CallVector2TransformNormal ==
    /\ op = "none" /\ IsVector2(vecA) /\ mat # Unused /\ IsVector4(vecB)
    /\ op' = "Vector2::TransformNormal"
    /\ out' = Vector2_TransformNormal(vecA, mat)
    /\ UNCHANGED <<vecA, vecB, vecC, quatA, quatB, mat, num, err, scale, rot, trans>>

CallVector3TransformNormal ==
    /\ op = "none" /\ IsVector3(vecA) /\ mat # Unused /\ IsVector4(vecB)
    /\ op' = "Vector3::TransformNormal"
    /\ out' = Vector3_TransformNormal(vecA, mat)
    /\ UNCHANGED <<vecA, vecB, vecC, quatA, quatB, mat, num, err, scale, rot, trans>>

CallVector4TransformNormal ==
    /\ op = "none" /\ IsVector4(vecA) /\ mat # Unused /\ IsVector4(vecB)
    /\ op' = "Vector4::TransformNormal"
    /\ out' = Vector4_TransformNormal(vecA, mat)
    /\ UNCHANGED <<vecA, vecB, vecC, quatA, quatB, mat, num, err, scale, rot, trans>>

\* the caller overwrites the fourth row of the matrix with vecB and calls
\* TransformNormal on the same vector again
CallTransformNormalOtherRow ==
    /\ op \in {"Vector2::TransformNormal", "Vector3::TransformNormal", "Vector4::TransformNormal"}
    /\ op' = "TransformNormal(n, M with another fourth row)"
    /\ mat' = WithFourthRow(mat, vecB)
    /\ out' = IF IsVector2(vecA) THEN Vector2_TransformNormal(vecA, mat')
              ELSE IF IsVector3(vecA) THEN Vector3_TransformNormal(vecA, mat')
              ELSE Vector4_TransformNormal(vecA, mat')
    /\ UNCHANGED <<vecA, vecB, vecC, quatA, quatB, num, err, scale, rot, trans>>

\* the caller zeroes M41, M42, M43 and calls Transform on the same vector
CallTransformWithoutTranslation ==
    /\ op \in {"Vector2::TransformNormal", "Vector3::TransformNormal"}
    /\ op' = "Transform(n, M with M41 = M42 = M43 = 0)"
    /\ mat' = WithoutTranslation(mat)
    /\ out' = IF IsVector2(vecA) THEN Vector2_TransformMatrix(vecA, mat')
              ELSE Vector3_TransformMatrix(vecA, mat')
    /\ UNCHANGED <<vecA, vecB, vecC, quatA, quatB, num, err, scale, rot, trans>>

NextNormal ==
    \/ CallVector2TransformNormal
    \/ CallVector3TransformNormal
    \/ CallVector4TransformNormal
    \/ CallTransformNormalOtherRow
    \/ CallTransformWithoutTranslation

SpecNormal == InitNormal /\ [][NextNormal]_vars

\* C18: for Vector2, Vector3 and Vector4, TransformNormal(n, M) does not depend
\* on the fourth row of M: two matrices that differ only in M41..M44 give the
\* same result; and for Vector2 and Vector3, TransformNormal(n, M) is
\* Transform(n, M') for M' = M with M41 = M42 = M43 = 0.
C18_TransformNormalIgnoresTranslation ==
    [][/\ op' = "TransformNormal(n, M with another fourth row)" => out' = out
       /\ op' = "Transform(n, M with M41 = M42 = M43 = 0)" => out' = out]_vars

\* TransformNormal of a Vector3 on a matrix with a translation, then on the
\* matrix with fourth row (5,5,5,5), has returned the same nonzero vector
C18_Witness ==
    /\ op = "TransformNormal(n, M with another fourth row)"
    /\ IsVector3(vecA)
    /\ mat.M41 = F(5) /\ mat.M11 = F(2)
    /\ out = Vector3_TransformNormal(vecA, WithFourthRow(mat, Vector4(F(-3), F(2), F(5), F(1))))
    /\ out # Vector3(F(0), F(0), F(0))

-----------------------------------------------------------------------------
(* WrapAngle. *)

\* quarters of a radian on both sides of zero, and the multiples of Pi at
\* which the branches meet
WrapInputs ==
    {F(i) // F(4) : i \in -MaxAngle .. MaxAngle} \cup
    {MathHelper_Pi, FNeg(MathHelper_Pi), MathHelper_TwoPi, FNeg(MathHelper_TwoPi)}

InitWrap ==
    /\ op = "none"
    /\ num \in {[val |-> v] : v \in WrapInputs}
    /\ vecA = Unused /\ vecB = Unused /\ vecC = Unused
    /\ quatA = Unused /\ quatB = Unused /\ mat = Unused
    /\ out = Unused /\ err = ""
    /\ scale = Unused /\ rot = Unused /\ trans = Unused

CallMathHelperWrapAngle ==
    /\ op = "none" /\ DOMAIN num = {"val"}
    /\ op' = "MathHelper::WrapAngle"
    /\ out' = MathHelper_WrapAngle(num.val)
    /\ UNCHANGED <<vecA, vecB, vecC, quatA, quatB, mat, num, err, scale, rot, trans>>

NextWrap == CallMathHelperWrapAngle

SpecWrap == InitWrap /\ [][NextWrap]_vars

\* C20: for every finite angle val, positive or negative, WrapAngle(val) lies
\* in the half-open interval (-Pi, Pi] and differs from val by an integer
\* multiple of 2 Pi.
C20_WrapAngleRange ==
    op = "MathHelper::WrapAngle" =>
        /\ FGt(out, FNeg(MathHelper_Pi))
        /\ FLe(out, MathHelper_Pi)
        /\ \E k \in -4 .. 4 : out = num.val -- (F(k) ** MathHelper_TwoPi)

-----------------------------------------------------------------------------
(* Reflect. *)

\* operator+(const Vector2&, const Vector2&)
Vector2_Add(lhs, rhs) == Vector2(lhs.X ++ rhs.X, lhs.Y ++ rhs.Y)

\* operator*(const Vector2&, float)
Vector2_Scale(lhs, rhs) == Vector2(lhs.X ** rhs, lhs.Y ** rhs)

\* operator*(float, const Vector2&)
Vector2_ScaleLeft(lhs, rhs) == Vector2_Scale(rhs, lhs)

\* operator*(float, const Vector3&)
Vector3_ScaleLeft(lhs, rhs) == Vector3_Scale(rhs, lhs)

Vector2_Reflect(vec, normal) ==
    LET projection == Vector2_ScaleLeft(Vector2_Dot(vec, normal), normal)
        perp == Vector2_Sub(projection, vec)
    IN  Vector2_Add(vec, Vector2_ScaleLeft(F(2), perp))

Vector3_Reflect(vec, norm) ==
    LET projection == Vector3_ScaleLeft(Vector3_Dot(vec, norm), norm)
        perp == Vector3_Sub(projection, vec)
    IN  Vector3_Add(vec, Vector3_ScaleLeft(F(2), perp))

\* unit-length normals with rational components
UnitNormals2 ==
    {Vector2(F(1), F(0)), Vector2(F(0), F(1)), Vector2(F(-1), F(0)),
     Vector2(F(3) // F(5), F(4) // F(5))}

UnitNormals3 ==
    {Vector3_UnitX, Vector3_UnitY, Vector3_Neg(Vector3_UnitZ),
     Vector3(F(2) // F(3), F(2) // F(3), F(1) // F(3))}

InitReflect ==
    /\ op = "none"
    /\ \/ vecA \in Vector2Set /\ vecB \in UnitNormals2
       \/ vecA \in Vector3Set /\ vecB \in UnitNormals3
    /\ vecC = Unused /\ quatA = Unused /\ quatB = Unused /\ mat = Unused
    /\ num = NoNum /\ out = Unused /\ err = ""
    /\ scale = Unused /\ rot = Unused /\ trans = Unused

\* Vector2::Reflect(v, n) with v = vecA, n = vecB
CallVector2Reflect ==
    /\ op = "none" /\ IsVector2(vecA) /\ IsVector2(vecB)
    /\ op' = "Vector2::Reflect"
    /\ out' = Vector2_Reflect(vecA, vecB)
    /\ UNCHANGED <<vecA, vecB, vecC, quatA, quatB, mat, num, err, scale, rot, trans>>

\* Vector3::Reflect(v, n) with v = vecA, n = vecB
CallVector3Reflect ==
    /\ op = "none" /\ IsVector3(vecA) /\ IsVector3(vecB)
    /\ op' = "Vector3::Reflect"
    /\ out' = Vector3_Reflect(vecA, vecB)
    /\ UNCHANGED <<vecA, vecB, vecC, quatA, quatB, mat, num, err, scale, rot, trans>>

\* Reflect(Reflect(v, n), n), on the reflection just computed
CallVector2ReflectAgain ==
    /\ op = "Vector2::Reflect"
    /\ op' = "Vector2::Reflect(Reflect(v, n), n)"
    /\ out' = Vector2_Reflect(out, vecB)
    /\ UNCHANGED <<vecA, vecB, vecC, quatA, quatB, mat, num, err, scale, rot, trans>>

CallVector3ReflectAgain ==
    /\ op = "Vector3::Reflect"
    /\ op' = "Vector3::Reflect(Reflect(v, n), n)"
    /\ out' = Vector3_Reflect(out, vecB)
    /\ UNCHANGED <<vecA, vecB, vecC, quatA, quatB, mat, num, err, scale, rot, trans>>

NextReflect ==
    \/ CallVector2Reflect
    \/ CallVector3Reflect
    \/ CallVector2ReflectAgain
    \/ CallVector3ReflectAgain

SpecReflect == InitReflect /\ [][NextReflect]_vars

\* v - 2*Dot(v, n)*n written out per component
Mirror2(v, n) ==
    LET d == F(2) ** ((v.X ** n.X) ++ (v.Y ** n.Y))
    IN  Vector2(v.X -- (d ** n.X), v.Y -- (d ** n.Y))

Mirror3(v, n) ==
    LET d == F(2) ** ((v.X ** n.X) ++ (v.Y ** n.Y) ++ (v.Z ** n.Z))
    IN  Vector3(v.X -- (d ** n.X), v.Y -- (d ** n.Y), v.Z -- (d ** n.Z))

\* C21: for a unit-length normal n, Reflect(v, n) is the mirror image
\* v - 2*Dot(v, n)*n for Vector2 and Vector3: a vector perpendicular to n comes
\* back unchanged, a vector parallel to n comes back negated, e.g.
\* Reflect((1,-1,0), (0,1,0)) = (1,1,0), and Reflect(Reflect(v, n), n) = v.
C21_ReflectIsMirrorImage ==
    /\ op = "Vector2::Reflect" =>
          /\ out = Mirror2(vecA, vecB)
          /\ Vector2_Dot(vecA, vecB) = F(0) => out = vecA
    /\ op = "Vector3::Reflect" =>
          /\ out = Mirror3(vecA, vecB)
          /\ Vector3_Dot(vecA, vecB) = F(0) => out = vecA
          /\ Vector3_Cross(vecA, vecB) = Vector3(F(0), F(0), F(0)) =>
                out = Vector3_Neg(vecA)
          /\ (vecA = Vector3(F(1), F(-1), F(0)) /\ vecB = Vector3_UnitY) =>
                out = Vector3(F(1), F(1), F(0))
    /\ op \in {"Vector2::Reflect(Reflect(v, n), n)",
               "Vector3::Reflect(Reflect(v, n), n)"} => out = vecA

-----------------------------------------------------------------------------
(* CreateLookAt. *)

\* the point (0, 0, 0)
Origin == Vector3(F(0), F(0), F(0))

Vector3_Forward == Vector3_Neg(Vector3_UnitZ)

\* void Vector3::Normalize(): every component divided by Length()
Vector3_NormalizeInPlace(this) ==
    LET len == Vector3_Length(this)
    IN  Vector3(this.X // len, this.Y // len, this.Z // len)

\* static Vector3::Normalize(Vector3 vec): normalises its copy and returns it
Vector3_Normalize(vec) == Vector3_NormalizeInPlace(vec)

Matrix_CreateLookAt(cameraPos, cameraTarg, cameraUp) ==
    LET zBasis == Vector3_Normalize(Vector3_Sub(cameraTarg, cameraPos))
        xBasis == Vector3_Normalize(Vector3_Cross(cameraUp, zBasis))
        yBasis == Vector3_Normalize(Vector3_Cross(zBasis, xBasis))
        tX == FNeg(Vector3_Dot(cameraPos, xBasis))
        tY == FNeg(Vector3_Dot(cameraPos, yBasis))
        tZ == FNeg(Vector3_Dot(cameraPos, zBasis))
    IN  Matrix(xBasis.X, xBasis.Y, xBasis.Z, F(0),
               yBasis.X, yBasis.Y, yBasis.Z, F(0),
               zBasis.X, zBasis.Y, zBasis.Z, F(0),
               tX, tY, tZ, F(1))

\* the six axis directions
AxisDirections ==
    {Vector3_UnitX, Vector3_UnitY, Vector3_UnitZ,
     Vector3_Neg(Vector3_UnitX), Vector3_Neg(Vector3_UnitY), Vector3_Neg(Vector3_UnitZ)}

\* vecA is cameraPos, vecB cameraTarg, vecC cameraUp
InitLookAt ==
    /\ op = "none"
    /\ vecA \in Vector3Set
    /\ \E d \in AxisDirections : vecB = Vector3_Add(vecA, d)
    /\ vecC \in {u \in AxisDirections : Vector3_Dot(u, Vector3_Sub(vecB, vecA)) = F(0)}
    /\ quatA = Unused /\ quatB = Unused /\ mat = Unused
    /\ num = NoNum /\ out = Unused /\ err = ""
    /\ scale = Unused /\ rot = Unused /\ trans = Unused

CallMatrixCreateLookAt ==
    /\ op = "none"
    /\ op' = "Matrix::CreateLookAt"
    /\ mat' = Matrix_CreateLookAt(vecA, vecB, vecC)
    /\ out' = mat'
    /\ UNCHANGED <<vecA, vecB, vecC, quatA, quatB, num, err, scale, rot, trans>>

\* Vector3::Transform(cameraPos, view) with the view matrix just built
CallVector3TransformCameraPos ==
    /\ op = "Matrix::CreateLookAt"
    /\ op' = "Vector3::Transform(cameraPos, CreateLookAt)"
    /\ out' = Vector3_TransformMatrix(vecA, mat)
    /\ UNCHANGED <<vecA, vecB, vecC, quatA, quatB, mat, num, err, scale, rot, trans>>

NextLookAt ==
    \/ CallMatrixCreateLookAt
    \/ CallVector3TransformCameraPos

SpecLookAt == InitLookAt /\ [][NextLookAt]_vars

\* the first three components of the row vector (v.X, v.Y, v.Z, 1) times m
RowVectorTimesMatrix(v, m) ==
    Vector3((v.X ** m.M11) ++ (v.Y ** m.M21) ++ (v.Z ** m.M31) ++ m.M41,
            (v.X ** m.M12) ++ (v.Y ** m.M22) ++ (v.Z ** m.M32) ++ m.M42,
            (v.X ** m.M13) ++ (v.Y ** m.M23) ++ (v.Z ** m.M33) ++ m.M43)

\* C22: CreateLookAt(cameraPos, cameraTarg, cameraUp) is a view matrix: for
\* every cameraPos, every axis-aligned viewing direction and every axis-aligned
\* cameraUp perpendicular to it, cameraPos as the row vector (x, y, z, 1) times
\* the matrix is the origin, and CreateLookAt(Zero, Forward, Up) is Identity.
C22_LookAtIsViewMatrix ==
    /\ op = "Matrix::CreateLookAt" =>
          /\ RowVectorTimesMatrix(vecA, out) = Origin
          /\ (vecA = Origin /\ vecB = Vector3_Forward /\ vecC = Vector3_Up) =>
                out = Matrix_Identity
    /\ op = "Vector3::Transform(cameraPos, CreateLookAt)" => out = Origin

-----------------------------------------------------------------------------
(* Barycentric. *)

\* both weights are clamped to [0, 1] before use
MathHelper_Barycentric(vert1, vert2, vert3, weight2, weight3) ==
    LET w2 == MathHelper_Clamp(weight2, F(0), F(1))
        w3 == MathHelper_Clamp(weight3, F(0), F(1))
    IN  (((F(1) -- w2 -- w3) ** vert1) ++ (w2 ** vert2)) ++ (w3 ** vert3)

Vector2_Barycentric(p1, p2, p3, b2, b3) ==
    Vector2_Add(Vector2_Add(Vector2_ScaleLeft(F(1) -- b2 -- b3, p1),
                            Vector2_ScaleLeft(b2, p2)),
                Vector2_ScaleLeft(b3, p3))

Vector3_Barycentric(p1, p2, p3, b2, b3) ==
    Vector3_Add(Vector3_Add(Vector3_ScaleLeft(F(1) -- b2 -- b3, p1),
                            Vector3_ScaleLeft(b2, p2)),
                Vector3_ScaleLeft(b3, p3))

\* operator+=(const Vector4&)
Vector4_AddAssign(this, v) ==
    Vector4(this.X ++ v.X, this.Y ++ v.Y, this.Z ++ v.Z, this.W ++ v.W)

\* operator+(Vector4, const Vector4&): lhs += rhs on the copy
Vector4_Add(lhs, rhs) == Vector4_AddAssign(lhs, rhs)

\* operator*=(float)
Vector4_ScaleAssign(this, f) ==
    Vector4(this.X ** f, this.Y ** f, this.Z ** f, this.W ** f)

\* operator*(float, Vector4): rhs *= lhs on the copy
Vector4_ScaleLeft(lhs, rhs) == Vector4_ScaleAssign(rhs, lhs)

Vector4_Barycentric(p1, p2, p3, b2, b3) ==
    Vector4_Add(Vector4_Add(Vector4_ScaleLeft(F(1) -- b2 -- b3, p1),
                            Vector4_ScaleLeft(b2, p2)),
                Vector4_ScaleLeft(b3, p3))

\* weights inside, on the border of and outside [0, 1]
BarycentricWeights == {F(-1), F(0), F(1) // F(2), F(1), F(2)}

\* vecA, vecB, vecC are the triangle p1, p2, p3
InitBarycentric ==
    /\ op = "none"
    /\ \/ /\ vecA \in Vector2Set
          /\ vecB \in {Vector2(F(1), F(0)), Vector2(F(2), F(-1))}
          /\ vecC \in {Vector2(F(0), F(1)), Vector2(F(-1), F(3))}
       \/ /\ vecA \in Vector3Set
          /\ vecB = Vector3(F(1), F(0), F(2))
          /\ vecC \in {Vector3(F(0), F(1), F(0)), Vector3(F(-1), F(3), F(1))}
       \/ /\ vecA \in {Vector4(F(0), F(0), F(0), F(0)), Vector4(F(1), F(-1), F(2), F(3))}
          /\ vecB = Vector4(F(1), F(0), F(2), F(-2))
          /\ vecC \in {Vector4(F(0), F(1), F(0), F(1)), Vector4(F(-1), F(3), F(1), F(0))}
    /\ \E b2 \in BarycentricWeights, b3 \in BarycentricWeights :
          num = [b2 |-> b2, b3 |-> b3]
    /\ quatA = Unused /\ quatB = Unused /\ mat = Unused
    /\ out = Unused /\ err = ""
    /\ scale = Unused /\ rot = Unused /\ trans = Unused

CallVector2Barycentric ==
    /\ op = "none" /\ IsVector2(vecA)
    /\ op' = "Vector2::Barycentric"
    /\ out' = Vector2_Barycentric(vecA, vecB, vecC, num.b2, num.b3)
    /\ UNCHANGED <<vecA, vecB, vecC, quatA, quatB, mat, num, err, scale, rot, trans>>

CallVector3Barycentric ==
    /\ op = "none" /\ IsVector3(vecA)
    /\ op' = "Vector3::Barycentric"
    /\ out' = Vector3_Barycentric(vecA, vecB, vecC, num.b2, num.b3)
    /\ UNCHANGED <<vecA, vecB, vecC, quatA, quatB, mat, num, err, scale, rot, trans>>

CallVector4Barycentric ==
    /\ op = "none" /\ IsVector4(vecA)
    /\ op' = "Vector4::Barycentric"
    /\ out' = Vector4_Barycentric(vecA, vecB, vecC, num.b2, num.b3)
    /\ UNCHANGED <<vecA, vecB, vecC, quatA, quatB, mat, num, err, scale, rot, trans>>

\* MathHelper::Barycentric on the X coordinates of the same triangle
CallMathHelperBarycentric ==
    /\ op = "none"
    /\ op' = "MathHelper::Barycentric"
    /\ out' = MathHelper_Barycentric(vecA.X, vecB.X, vecC.X, num.b2, num.b3)
    /\ UNCHANGED <<vecA, vecB, vecC, quatA, quatB, mat, num, err, scale, rot, trans>>

NextBarycentric ==
    \/ CallVector2Barycentric
    \/ CallVector3Barycentric
    \/ CallVector4Barycentric
    \/ CallMathHelperBarycentric

SpecBarycentric == InitBarycentric /\ [][NextBarycentric]_vars

\* the scalar helper applied to component c of the triangle
ScalarBarycentric(c) ==
    MathHelper_Barycentric(vecA[c], vecB[c], vecC[c], num.b2, num.b3)

\* C23: for Vector2, Vector3 and Vector4, every component of
\* Barycentric(p1, p2, p3, b2, b3) is the value of MathHelper::Barycentric on
\* that component of p1, p2, p3 with the same weights, for all weights b2 and
\* b3, also outside [0, 1].
C23_BarycentricPerComponent ==
    op \in {"Vector2::Barycentric", "Vector3::Barycentric", "Vector4::Barycentric"} =>
        \A c \in DOMAIN out : out[c] = ScalarBarycentric(c)

-----------------------------------------------------------------------------
(* Batch transforms. *)

\* Transform that takes v as a column vector: the matrix times v
Vector4_TransformMatrix_ColumnVector(v, m) ==
    LET x == (v.X ** m.M11) ++ (v.Y ** m.M12) ++ (v.Z ** m.M13) ++ (v.W ** m.M14)
        y == (v.X ** m.M21) ++ (v.Y ** m.M22) ++ (v.Z ** m.M23) ++ (v.W ** m.M24)
        z == (v.X ** m.M31) ++ (v.Y ** m.M32) ++ (v.Z ** m.M33) ++ (v.W ** m.M34)
        w == (v.X ** m.M41) ++ (v.Y ** m.M42) ++ (v.Z ** m.M43) ++ (v.W ** m.M44)
    IN  Vector4(x, y, z, w)

\* Vector4::Transform(const Vector4&, const Matrix&)
Vector4_TransformMatrix(v, m) ==
    LET x == (v.X ** m.M11) ++ (v.Y ** m.M21) ++ (v.Z ** m.M31) ++ (v.W ** m.M41)
        y == (v.X ** m.M12) ++ (v.Y ** m.M22) ++ (v.Z ** m.M32) ++ (v.W ** m.M42)
        z == (v.X ** m.M13) ++ (v.Y ** m.M23) ++ (v.Z ** m.M33) ++ (v.W ** m.M43)
        w == (v.X ** m.M14) ++ (v.Y ** m.M24) ++ (v.Z ** m.M34) ++ (v.W ** m.M44)
    IN  Vector4(x, y, z, w)

\* Vector4::Transform(const Vector4&, const Quaternion&)
Vector4_TransformQuaternion(v, q) ==
    LET vQ == Quaternion(v.X, v.Y, v.Z, v.W)
        res == Quaternion_Mul(Quaternion_Mul(q, vQ), Quaternion_Inverse(q))
    IN  Vector4(res.X, res.Y, res.Z, res.W)

\* the longest sequence handed to a batch call
MaxCount == 3

\* the single-element overload a batch overload calls in its loop body
SingleTransform(kind, v, arg) ==
    CASE kind = "Vector2::Transform(Matrix)" -> Vector2_TransformMatrix(v, arg)
      [] kind = "Vector2::Transform(Quaternion)" -> Vector2_TransformQuaternion(v, arg)
      [] kind = "Vector2::TransformNormal(Matrix)" -> Vector2_TransformNormal(v, arg)
      [] kind = "Vector3::Transform(Matrix)" -> Vector3_TransformMatrix(v, arg)
      [] kind = "Vector3::Transform(Quaternion)" -> Vector3_TransformQuaternion(v, arg)
      [] kind = "Vector3::TransformNormal(Matrix)" -> Vector3_TransformNormal(v, arg)
      [] kind = "Vector4::Transform(Matrix)" -> Vector4_TransformMatrix(v, arg)
      [] kind = "Vector4::Transform(Quaternion)" -> Vector4_TransformQuaternion(v, arg)
      [] kind = "Vector4::TransformNormal(Matrix)" -> Vector4_TransformNormal(v, arg)

\* the element of dest the loop writes for source index i, with a zero-based
\* index turned into a position of the sequence
BatchDestIndex_NoOffset(i, sourceIdx, destIdx) == destIdx + i + 1

BatchDestIndex(i, sourceIdx, destIdx) == destIdx + (i - sourceIdx) + 1

\* one iteration that applies the transform twice
BatchStep_TransformsTwice(kind, source, k, sourceIdx, arg, dest, destIdx) ==
    [dest EXCEPT ![BatchDestIndex(sourceIdx + k, sourceIdx, destIdx)] =
                     SingleTransform(kind, SingleTransform(kind, source[sourceIdx + k + 1], arg), arg)]

\* the iteration i = sourceIdx + k of the loop:
\*     dest[destIdx + (i - sourceIdx)] = Transform(source[i], mat);
BatchStep(kind, source, k, sourceIdx, arg, dest, destIdx) ==
    [dest EXCEPT ![BatchDestIndex(sourceIdx + k, sourceIdx, destIdx)] =
                     SingleTransform(kind, source[sourceIdx + k + 1], arg)]

\* sequences of MaxCount vectors, all different
BatchSource2 == [i \in 1 .. MaxCount |-> Vector2(F(i), F(1 - i))]
BatchSource3 == [i \in 1 .. MaxCount |-> Vector3(F(i), F(1 - i), F(2 * i))]
BatchSource4 == [i \in 1 .. MaxCount |-> Vector4(F(i), F(1 - i), F(2 * i), F(1))]

\* the destinations, of one marker value that no transform produces
BatchDest2(n) == [i \in 1 .. n |-> Vector2(F(99), F(99))]
BatchDest3(n) == [i \in 1 .. n |-> Vector3(F(99), F(99), F(99))]
BatchDest4(n) == [i \in 1 .. n |-> Vector4(F(99), F(99), F(99), F(99))]

\* a scale, shear and translation
BatchMatrixA ==
    Matrix(F(2), F(0), F(0), F(0),
           F(1), F(3), F(0), F(0),
           F(0), F(0), F(5), F(1),
           F(7), F(-4), F(2), F(1))

\* a quarter turn about Z scaled by 2, and a translation
BatchMatrixB ==
    Matrix(F(0), F(2), F(0), F(0),
           F(-2), F(0), F(0), F(0),
           F(0), F(0), F(2), F(0),
           F(1), F(1), F(1), F(1))

BatchMatrices == {BatchMatrixA, BatchMatrixB}

BatchQuaternionA == Quaternion(F(0), F(0), F(1), F(0))
BatchQuaternionB == Quaternion(F(1) // F(2), F(1) // F(2), F(1) // F(2), F(1) // F(2))

\* the calls whose ranges lie inside source and dest
BatchRanges(source, dest) ==
    {r \in [sourceIdx : 0 .. Len(source), destIdx : 0 .. Len(dest), count : 0 .. Len(source)] :
        /\ r.sourceIdx + r.count <= Len(source)
        /\ r.destIdx + r.count <= Len(dest)}

\* vecA is source, vecB dest and vecC the value dest had before the call
InitBatch ==
    /\ op = "none"
    /\ \E extra \in 0 .. 1 :
         \/ vecA = BatchSource2 /\ vecB = BatchDest2(MaxCount + extra)
         \/ vecA = BatchSource3 /\ vecB = BatchDest3(MaxCount + extra)
         \/ vecA = BatchSource4 /\ vecB = BatchDest4(MaxCount + extra)
    /\ vecC = vecB
    /\ num \in BatchRanges(vecA, vecB)
    /\ \/ mat = BatchMatrixA /\ quatA = BatchQuaternionA
       \/ mat = BatchMatrixB /\ quatA = BatchQuaternionB
    /\ quatB = Unused /\ out = Unused /\ err = ""
    /\ scale = Unused /\ rot = Unused /\ trans = Unused

\* the overloads there are for the element type of v
BatchKinds(v) ==
    IF IsVector2(v)
    THEN {"Vector2::Transform(Matrix)", "Vector2::Transform(Quaternion)", "Vector2::TransformNormal(Matrix)"}
    ELSE IF IsVector3(v)
    THEN {"Vector3::Transform(Matrix)", "Vector3::Transform(Quaternion)", "Vector3::TransformNormal(Matrix)"}
    ELSE {"Vector4::Transform(Matrix)", "Vector4::Transform(Quaternion)", "Vector4::TransformNormal(Matrix)"}

\* the argument of the overload: the quaternion or the matrix
BatchArg(kind) ==
    IF kind \in {"Vector2::Transform(Quaternion)", "Vector3::Transform(Quaternion)", "Vector4::Transform(Quaternion)"}
    THEN quatA ELSE mat

\* an indexed overload is entered: out holds its parameters, the loop
\* variable i and the indices of source read so far
CallTransformBatch ==
    /\ op = "none"
    /\ \E kind \in BatchKinds(vecA[1]) :
         out' = [kind |-> kind, whole |-> FALSE, i |-> num.sourceIdx, reads |-> {},
                 sourceIdx |-> num.sourceIdx, destIdx |-> num.destIdx, count |-> num.count]
    /\ op' = "loop"
    /\ UNCHANGED <<vecA, vecB, vecC, quatA, quatB, mat, num, err, scale, rot, trans>>

\* a whole-sequence overload is entered: it calls the indexed overload with
\* (source, 0, arg, dest, 0, source.size())
CallTransformAll ==
    /\ op = "none"
    /\ \E kind \in BatchKinds(vecA[1]) :
         out' = [kind |-> kind, whole |-> TRUE, i |-> 0, reads |-> {},
                 sourceIdx |-> 0, destIdx |-> 0, count |-> Len(vecA)]
    /\ op' = "loop"
    /\ UNCHANGED <<vecA, vecB, vecC, quatA, quatB, mat, num, err, scale, rot, trans>>

\* for (i = sourceIdx; i < sourceIdx + count; i++): one iteration
IterateTransformBatch ==
    /\ op = "loop" /\ out.i < out.sourceIdx + out.count
    /\ vecB' = BatchStep(out.kind, vecA, out.i - out.sourceIdx, out.sourceIdx,
                         BatchArg(out.kind), vecB, out.destIdx)
    /\ out' = [out EXCEPT !.i = @ + 1, !.reads = @ \cup {out.i}]
    /\ UNCHANGED <<op, vecA, vecC, quatA, quatB, mat, num, err, scale, rot, trans>>

\* the loop condition fails and the call returns
ReturnTransformBatch ==
    /\ op = "loop" /\ ~(out.i < out.sourceIdx + out.count)
    /\ op' = "returned"
    /\ UNCHANGED <<vecA, vecB, vecC, quatA, quatB, mat, num, out, err, scale, rot, trans>>

NextBatch ==
    \/ CallTransformBatch
    \/ CallTransformAll
    \/ IterateTransformBatch
    \/ ReturnTransformBatch

SpecBatch == InitBatch /\ [][NextBatch]_vars

\* the range a finished call worked on: the one given, or all of source
BatchSourceIdx == IF out.whole THEN 0 ELSE num.sourceIdx
BatchDestIdx == IF out.whole THEN 0 ELSE num.destIdx
BatchCount == IF out.whole THEN Len(vecA) ELSE num.count

\* C24: a batch Transform or TransformNormal call on two distinct sequences
\* sets dest[destIdx + k] to the single-element transform of
\* source[sourceIdx + k] for every 0 <= k < count, reads no element of source
\* outside [sourceIdx, sourceIdx + count), leaves the rest of dest, the length
\* of dest and source as they were; the whole-sequence overload does so with
\* sourceIdx = destIdx = 0 and count = source.size().
C24_BatchWritesExactlyItsRange ==
    op = "returned" =>
        /\ \A k \in 0 .. BatchCount - 1 :
              vecB[BatchDestIdx + k + 1] =
                  SingleTransform(out.kind, vecA[BatchSourceIdx + k + 1], BatchArg(out.kind))
        /\ out.reads \subseteq BatchSourceIdx .. BatchSourceIdx + BatchCount - 1
        /\ Len(vecB) = Len(vecC)
        /\ \A j \in 1 .. Len(vecB) :
              (j - 1 < BatchDestIdx \/ j - 1 >= BatchDestIdx + BatchCount) => vecB[j] = vecC[j]
        /\ vecA \in {BatchSource2, BatchSource3, BatchSource4}

\* an indexed call has moved two elements from the end of source to the
\* middle of a longer dest
C24_Witness ==
    /\ op = "returned" /\ ~out.whole /\ out.kind = "Vector3::Transform(Matrix)"
    /\ num.sourceIdx = MaxCount - 2 /\ num.destIdx = 1 /\ num.count = 2
    /\ Len(vecB) = MaxCount + 1
    /\ vecB[2] = Vector3_TransformMatrix(vecA[MaxCount - 1], mat)
    /\ vecB[1] = vecC[1]

-----------------------------------------------------------------------------
(* Batch transforms, one loop iteration at a time and in any order. *)

\* the indexed matrix overload of the element type
BatchKind(v) ==
    IF IsVector2(v) THEN "Vector2::Transform(Matrix)"
    ELSE IF IsVector3(v) THEN "Vector3::Transform(Matrix)"
    ELSE "Vector4::Transform(Matrix)"

\* vecA is source and vecB dest as the iterations go, vecC the source as the
\* call began; num.same tells that source and dest are one sequence; out is
\* the set of iterations still to run
InitBatchSteps ==
    /\ op = "none"
    /\ vecC \in {BatchSource2, BatchSource3, BatchSource4}
    /\ vecA = vecC
    /\ \E same \in BOOLEAN :
         /\ vecB \in IF same THEN {vecA}
                     ELSE IF IsVector2(vecA[1]) THEN {BatchDest2(MaxCount), BatchDest2(MaxCount + 1)}
                     ELSE IF IsVector3(vecA[1]) THEN {BatchDest3(MaxCount), BatchDest3(MaxCount + 1)}
                     ELSE {BatchDest4(MaxCount), BatchDest4(MaxCount + 1)}
         /\ \E r \in BatchRanges(vecA, vecB) :
              num = [sourceIdx |-> r.sourceIdx, destIdx |-> r.destIdx,
                     count |-> r.count, same |-> same]
    /\ mat \in BatchMatrices
    /\ quatA = Unused /\ quatB = Unused /\ out = Unused /\ err = ""
    /\ scale = Unused /\ rot = Unused /\ trans = Unused

\* the call is made: every iteration is still to run
BeginBatch ==
    /\ op = "none"
    /\ op' = "batch running"
    /\ out' = 0 .. num.count - 1
    /\ UNCHANGED <<vecA, vecB, vecC, quatA, quatB, mat, num, err, scale, rot, trans>>

\* any one of the remaining iterations runs; a write to dest is a write to
\* source when they are one sequence
StepBatchElement ==
    /\ op = "batch running"
    /\ \E k \in out :
         /\ vecB' = BatchStep(BatchKind(vecA[1]), vecA, k, num.sourceIdx, mat, vecB, num.destIdx)
         /\ out' = out \ {k}
    /\ vecA' = IF num.same THEN vecB' ELSE vecA
    /\ UNCHANGED <<op, vecC, quatA, quatB, mat, num, err, scale, rot, trans>>

\* the loop is over and the call returns
FinishBatch ==
    /\ op = "batch running" /\ out = {}
    /\ op' = "batch returned"
    /\ UNCHANGED <<vecA, vecB, vecC, quatA, quatB, mat, num, out, err, scale, rot, trans>>

NextBatchSteps ==
    \/ BeginBatch
    \/ StepBatchElement
    \/ FinishBatch

SpecBatchSteps == InitBatchSteps /\ [][NextBatchSteps]_vars

\* dest as the call began
BatchDestAtCall ==
    IF num.same THEN vecC
    ELSE IF IsVector2(vecC[1]) THEN BatchDest2(Len(vecB))
    ELSE IF IsVector3(vecC[1]) THEN BatchDest3(Len(vecB))
    ELSE BatchDest4(Len(vecB))

\* what the statement expects of dest after the call: the transforms of the
\* elements source held as the call began, and the rest untouched
BatchExpected ==
    [j \in 1 .. Len(vecB) |->
        IF j - 1 >= num.destIdx /\ j - 1 < num.destIdx + num.count
        THEN SingleTransform(BatchKind(vecC[1]), vecC[num.sourceIdx + (j - 1 - num.destIdx) + 1], mat)
        ELSE BatchDestAtCall[j]]

\* the source and dest ranges share no position, or are the same range
BatchRangesIndependent ==
    \/ num.sourceIdx = num.destIdx
    \/ num.sourceIdx + num.count <= num.destIdx
    \/ num.destIdx + num.count <= num.sourceIdx

\* C25: whatever the order in which the count iterations of a batch transform
\* run, the final dest is the same and dest[destIdx + k] is the transform of
\* the value source[sourceIdx + k] had as the call began, also when source and
\* dest are the same sequence with overlapping ranges.
C25_BatchOrderIndependent ==
    op = "batch returned" => vecB = BatchExpected

\* C25, amended: the same, when source and dest are distinct sequences, or one
\* sequence with sourceIdx = destIdx or with ranges that share no position.
C25_BatchOrderIndependentUnlessShifted ==
    (op = "batch returned" /\ (~num.same \/ BatchRangesIndependent)) =>
        vecB = BatchExpected

\* a whole sequence has been transformed in place
C25_Witness ==
    /\ op = "batch returned"
    /\ num.same /\ num.sourceIdx = 0 /\ num.destIdx = 0 /\ num.count = MaxCount
    /\ vecB[MaxCount] = SingleTransform(BatchKind(vecC[1]), vecC[MaxCount], mat)
    /\ vecB # vecC

-----------------------------------------------------------------------------
(* Approximate equality under the global MathHelper::Epsilon. *)

\* the value of the global MathHelper::Epsilon, kept in num
MathHelper_Epsilon == num.Epsilon

\* |val1 - val2| < MathHelper::Epsilon, read when the comparison is made
MathHelper_EqualWithinEpsilon(val1, val2) ==
    FLt(FAbs(val1 -- val2), MathHelper_Epsilon)

\* operator== that leaves W out of the comparison
Quaternion_Eq_IgnoresW(lhs, rhs) ==
    /\ MathHelper_EqualWithinEpsilon(lhs.X, rhs.X)
    /\ MathHelper_EqualWithinEpsilon(lhs.Y, rhs.Y)
    /\ MathHelper_EqualWithinEpsilon(lhs.Z, rhs.Z)

\* operator==(const Quaternion&, const Quaternion&)
Quaternion_Eq(lhs, rhs) ==
    /\ MathHelper_EqualWithinEpsilon(lhs.X, rhs.X)
    /\ MathHelper_EqualWithinEpsilon(lhs.Y, rhs.Y)
    /\ MathHelper_EqualWithinEpsilon(lhs.Z, rhs.Z)
    /\ MathHelper_EqualWithinEpsilon(lhs.W, rhs.W)

\* operator!=(const Quaternion&, const Quaternion&)
Quaternion_Ne(lhs, rhs) == ~Quaternion_Eq(lhs, rhs)

\* tolerances a caller may write: negative, zero and positive
EpsilonSet == {F(-1), F(0), F(1) // F(2), F(2)}

\* quaternions whose components differ by 0, 1/2, 1 and 2
EpsilonOperands ==
    {Quaternion_Identity,
     Quaternion(F(1) // F(2), F(0), F(0), F(1)),
     Quaternion(F(0), F(1), F(0), F(1)),
     Quaternion(F(0), F(0), F(0), F(3))}

\* vecC remembers the comparison before the last one: its result and the
\* Epsilon it was made under
InitEpsilon ==
    /\ op = "none"
    /\ quatA \in EpsilonOperands
    /\ quatB \in EpsilonOperands
    /\ num \in [Epsilon : EpsilonSet]
    /\ vecA = Unused /\ vecB = Unused /\ vecC = Unused /\ mat = Unused
    /\ out = Unused /\ err = ""
    /\ scale = Unused /\ rot = Unused /\ trans = Unused

\* the caller assigns MathHelper::Epsilon
WriteEpsilon ==
    /\ \E e \in EpsilonSet : num' = [num EXCEPT !.Epsilon = e]
    /\ op' = "MathHelper::Epsilon ="
    /\ UNCHANGED <<vecA, vecB, vecC, quatA, quatB, mat, out, err, scale, rot, trans>>

\* the comparison just made, for the next one to remember
LastComparison ==
    IF op \in {"operator==", "operator!="}
    THEN [equal |-> (out = (op = "operator==")), Epsilon |-> num.Epsilon]
    ELSE vecC

\* quatA == quatB
CallQuaternionEq ==
    /\ op' = "operator=="
    /\ out' = Quaternion_Eq(quatA, quatB)
    /\ vecC' = LastComparison
    /\ UNCHANGED <<vecA, vecB, quatA, quatB, mat, num, err, scale, rot, trans>>

\* quatA != quatB
CallQuaternionNe ==
    /\ op' = "operator!="
    /\ out' = Quaternion_Ne(quatA, quatB)
    /\ vecC' = LastComparison
    /\ UNCHANGED <<vecA, vecB, quatA, quatB, mat, num, err, scale, rot, trans>>

NextEpsilon ==
    \/ WriteEpsilon
    \/ CallQuaternionEq
    \/ CallQuaternionNe

SpecEpsilon == InitEpsilon /\ [][NextEpsilon]_vars

\* every component of quatA and quatB differs by strictly less than e
AllWithin(e) ==
    \A c \in {"X", "Y", "Z", "W"} :
        LET d == quatA[c] -- quatB[c]
        IN  FLt(IF FLt(d, F(0)) THEN FNeg(d) ELSE d, e)

\* C26: a == b is true exactly when |a.X-b.X|, |a.Y-b.Y|, |a.Z-b.Z| and
\* |a.W-b.W| are all strictly below the Epsilon of the moment of the
\* comparison, a != b is its negation, and every comparison made after writes
\* to Epsilon uses the last value written; q == q is false once Epsilon <= 0.
C26_EqualityUsesCurrentEpsilon ==
    /\ op = "operator==" =>
          /\ out = AllWithin(num.Epsilon)
          /\ (quatA = quatB /\ FLe(num.Epsilon, F(0))) => out = FALSE
    /\ op = "operator!=" => out = ~AllWithin(num.Epsilon)

\* one pair compared equal, Epsilon was written, and the pair compares unequal
C26_Witness ==
    /\ op = "operator=="
    /\ out = FALSE
    /\ vecC # Unused /\ vecC.equal /\ FGt(vecC.Epsilon, num.Epsilon)
    /\ quatA = quatB

-----------------------------------------------------------------------------
(* Normalize. *)

\* Vector2::operator/=(float)
Vector2_DivAssign(this, rhs) == Vector2(this.X // rhs, this.Y // rhs)

Vector2_LengthSquared(this) == Vector2_Dot(this, this)

Vector2_Length(this) == FSqrt(Vector2_LengthSquared(this))

\* void Vector2::Normalize(): (*this) /= this->Length()
Vector2_NormalizeInPlace(this) == Vector2_DivAssign(this, Vector2_Length(this))

\* static Vector2::Normalize(Vector2 vec): normalises its copy and returns it
Vector2_Normalize(vec) == Vector2_NormalizeInPlace(vec)

\* Vector4::operator/=(float)
Vector4_DivAssign(this, f) ==
    Vector4(this.X // f, this.Y // f, this.Z // f, this.W // f)

Vector4_Length(this) == FSqrt(Vector4_LengthSquared(this))

\* Normalize() that divides by the squared length
Vector4_NormalizeInPlace_BySquaredLength(this) ==
    Vector4_DivAssign(this, Vector4_LengthSquared(this))

\* void Vector4::Normalize(): *this /= this->Length()
Vector4_NormalizeInPlace(this) == Vector4_DivAssign(this, Vector4_Length(this))

\* static Vector4::Normalize(Vector4 v)
Vector4_Normalize(v) == Vector4_NormalizeInPlace(v)

\* vectors of length 5, 3, 7 and 9, beside the small ones
NormalizeOperands ==
    Vector2Set \cup Vector3Set \cup Vector4Set
    \cup {Vector2(F(3), F(-4)), Vector3(F(1), F(-2), F(2)), Vector3(F(2), F(3), F(6)),
          Vector4(F(2), F(-4), F(5), F(6)), Vector4(F(0), F(0), F(-3), F(0))}

\* vecA is v; vecB is the object v.Normalize() was called on, afterwards
InitNormalize ==
    /\ op = "none"
    /\ vecA \in NormalizeOperands
    /\ vecB = Unused /\ vecC = Unused /\ quatA = Unused /\ quatB = Unused
    /\ mat = Unused /\ num = NoNum /\ out = Unused /\ err = ""
    /\ scale = Unused /\ rot = Unused /\ trans = Unused

\* a copy of v is normalised in place
CallVector2NormalizeInPlace ==
    /\ op = "none" /\ IsVector2(vecA)
    /\ op' = "Vector2::Normalize()"
    /\ vecB' = Vector2_NormalizeInPlace(vecA)
    /\ out' = vecB'
    /\ UNCHANGED <<vecA, vecC, quatA, quatB, mat, num, err, scale, rot, trans>>

\* Normalize(v), after the in-place call
CallVector2Normalize ==
    /\ op = "Vector2::Normalize()"
    /\ op' = "Vector2::Normalize(v)"
    /\ out' = Vector2_Normalize(vecA)
    /\ UNCHANGED <<vecA, vecB, vecC, quatA, quatB, mat, num, err, scale, rot, trans>>

\* a copy of v is normalised in place
CallVector3NormalizeInPlace ==
    /\ op = "none" /\ IsVector3(vecA)
    /\ op' = "Vector3::Normalize()"
    /\ vecB' = Vector3_NormalizeInPlace(vecA)
    /\ out' = vecB'
    /\ UNCHANGED <<vecA, vecC, quatA, quatB, mat, num, err, scale, rot, trans>>

\* Normalize(v), after the in-place call
CallVector3Normalize ==
    /\ op = "Vector3::Normalize()"
    /\ op' = "Vector3::Normalize(v)"
    /\ out' = Vector3_Normalize(vecA)
    /\ UNCHANGED <<vecA, vecB, vecC, quatA, quatB, mat, num, err, scale, rot, trans>>

\* a copy of v is normalised in place
CallVector4NormalizeInPlace ==
    /\ op = "none" /\ IsVector4(vecA)
    /\ op' = "Vector4::Normalize()"
    /\ vecB' = Vector4_NormalizeInPlace(vecA)
    /\ out' = vecB'
    /\ UNCHANGED <<vecA, vecC, quatA, quatB, mat, num, err, scale, rot, trans>>

\* Normalize(v), after the in-place call
CallVector4Normalize ==
    /\ op = "Vector4::Normalize()"
    /\ op' = "Vector4::Normalize(v)"
    /\ out' = Vector4_Normalize(vecA)
    /\ UNCHANGED <<vecA, vecB, vecC, quatA, quatB, mat, num, err, scale, rot, trans>>

NextNormalize ==
    \/ CallVector2NormalizeInPlace
    \/ CallVector2Normalize
    \/ CallVector3NormalizeInPlace
    \/ CallVector3Normalize
    \/ CallVector4NormalizeInPlace
    \/ CallVector4Normalize

SpecNormalize == InitNormalize /\ [][NextNormalize]_vars

\* the sum of the squares of the components of v
SumOfSquares(v) ==
    LET sq(c) == v[c] ** v[c]
    IN  IF IsVector2(v) THEN sq("X") ++ sq("Y")
        ELSE IF IsVector3(v) THEN sq("X") ++ sq("Y") ++ sq("Z")
        ELSE sq("X") ++ sq("Y") ++ sq("Z") ++ sq("W")

\* v has exactly one component that is not zero
AxisAligned(v) == Cardinality({c \in DOMAIN v : v[c] # F(0)}) = 1

\* the unit axis vector pointing the way of an axis-aligned v
SignedAxis(v) == [c \in DOMAIN v |-> F(Sgn(v[c][1]))]

\* C27: for v of nonzero length, Normalize(v) is v with every component
\* divided by Length(v) and has length 1, and is the signed unit axis vector
\* for an axis-aligned v; the in-place Normalize() and the static Normalize(v)
\* give the same result.  The length is compared where it is rational.
C27_NormalizeGivesUnitLength ==
    (op # "none" /\ SumOfSquares(vecA) # F(0)) =>
        /\ \A c \in DOMAIN vecA : out[c] = vecA[c] // FSqrt(SumOfSquares(vecA))
        /\ ~IsSym(FSqrt(SumOfSquares(vecA))) => FSqrt(SumOfSquares(out)) = F(1)
        /\ AxisAligned(vecA) => out = SignedAxis(vecA)
        /\ out = vecB

\* Normalize((2, -4, 5, 6)), of length 9, has returned after the in-place call
C27_Witness ==
    /\ op = "Vector4::Normalize(v)"
    /\ vecA = Vector4(F(2), F(-4), F(5), F(6))
    /\ out = Vector4(F(2) // F(9), F(-4) // F(9), F(5) // F(9), F(2) // F(3))
    /\ vecB = out

-----------------------------------------------------------------------------
(* Matrix product. *)

MulMatrices ==
    AccessorMatrices \cup BatchMatrices
    \cup {Matrix(F(0), F(1), F(0), F(0),
                 F(0), F(0), F(-1), F(2),
                 F(3), F(0), F(0), F(0),
                 F(0), F(0), F(0), F(0))}

MulVectors ==
    {Vector4(F(1), F(0), F(0), F(0)), Vector4(F(0), F(0), F(0), F(1)),
     Vector4(F(1), F(2), F(3), F(1)), Vector4(F(-1), F(1), F(0), F(2))}

\* mat is A, rot is B and vecA is v
InitMul ==
    /\ op = "none"
    /\ mat \in MulMatrices
    /\ rot \in MulMatrices
    /\ vecA \in MulVectors
    /\ vecB = Unused /\ vecC = Unused /\ quatA = Unused /\ quatB = Unused
    /\ num = NoNum /\ out = Unused /\ err = ""
    /\ scale = Unused /\ trans = Unused

\* A * B
CallMatrixMul ==
    /\ op = "none"
    /\ op' = "operator*(Matrix, Matrix)"
    /\ out' = Matrix_Mul(mat, rot)
    /\ UNCHANGED <<vecA, vecB, vecC, quatA, quatB, mat, num, err, scale, rot, trans>>

\* A *= A: the right operand is the object assigned to
CallMatrixMulAssignSelf ==
    /\ op = "none"
    /\ op' = "A *= A"
    /\ mat' = Matrix_MulAssign(mat, mat)
    /\ out' = mat'
    /\ UNCHANGED <<vecA, vecB, vecC, quatA, quatB, num, err, scale, rot, trans>>

\* A * Identity
CallMatrixTimesIdentity ==
    /\ op = "none"
    /\ op' = "A * Identity"
    /\ out' = Matrix_Mul(mat, Matrix_Identity)
    /\ UNCHANGED <<vecA, vecB, vecC, quatA, quatB, mat, num, err, scale, rot, trans>>

\* Identity * A
CallIdentityTimesMatrix ==
    /\ op = "none"
    /\ op' = "Identity * A"
    /\ out' = Matrix_Mul(Matrix_Identity, mat)
    /\ UNCHANGED <<vecA, vecB, vecC, quatA, quatB, mat, num, err, scale, rot, trans>>

\* Transform(Transform(v, A), B), kept in vecB
CallVector4TransformTwice ==
    /\ op = "none"
    /\ op' = "Vector4::Transform(Transform(v, A), B)"
    /\ vecB' = Vector4_TransformMatrix(Vector4_TransformMatrix(vecA, mat), rot)
    /\ out' = vecB'
    /\ UNCHANGED <<vecA, vecC, quatA, quatB, mat, num, err, scale, rot, trans>>

\* Transform(v, A * B), after the two transforms in a row
CallVector4TransformProduct ==
    /\ op = "Vector4::Transform(Transform(v, A), B)"
    /\ op' = "Vector4::Transform(v, A * B)"
    /\ out' = Vector4_TransformMatrix(vecA, Matrix_Mul(mat, rot))
    /\ UNCHANGED <<vecA, vecB, vecC, quatA, quatB, mat, num, err, scale, rot, trans>>

NextMul ==
    \/ CallMatrixMul
    \/ CallMatrixMulAssignSelf
    \/ CallMatrixTimesIdentity
    \/ CallIdentityTimesMatrix
    \/ CallVector4TransformTwice
    \/ CallVector4TransformProduct

SpecMul == InitMul /\ [][NextMul]_vars

\* the sum over k of a_ik * b_kj
RowTimesColumn(a, b, i, j) ==
    (Entry(a, i, 1) ** Entry(b, 1, j)) ++ (Entry(a, i, 2) ** Entry(b, 2, j))
    ++ (Entry(a, i, 3) ** Entry(b, 3, j)) ++ (Entry(a, i, 4) ** Entry(b, 4, j))

\* C28: every entry (A*B)_ij is the sum over k of A_ik * B_kj, also when both
\* operands are one object (A *= A gives A squared); Identity is a unit on
\* either side; and Transform(Transform(v, A), B) = Transform(v, A * B) for
\* every Vector4 v.
C28_MatrixProductIsRowMajor ==
    [][/\ op' = "operator*(Matrix, Matrix)" =>
             \A i \in 1 .. 4, j \in 1 .. 4 : Entry(out', i, j) = RowTimesColumn(mat, rot, i, j)
       /\ op' = "A *= A" =>
             \A i \in 1 .. 4, j \in 1 .. 4 : Entry(mat', i, j) = RowTimesColumn(mat, mat, i, j)
       /\ op' \in {"A * Identity", "Identity * A"} => out' = mat
       /\ op' = "Vector4::Transform(v, A * B)" => out' = vecB]_vars

\* a vector went through two different matrices that do not commute, and
\* through their product
C28_Witness ==
    /\ op = "Vector4::Transform(v, A * B)"
    /\ mat # rot /\ Matrix_Mul(mat, rot) # Matrix_Mul(rot, mat)
    /\ vecA = Vector4(F(1), F(2), F(3), F(1))
    /\ out = vecB

-----------------------------------------------------------------------------
(* Rotation of a vector by a quaternion and by its matrix. *)

\* the identity, the half-turns about the axes and unit quaternions with
\* rational components
RotateQuaternions ==
    UnitQuaternions \cup {Quaternion_Identity, QuaternionI, QuaternionJ, QuaternionK}

\* vecA is v and quatA is q; vecB and vecC keep the first two results
InitRotate ==
    /\ op = "none"
    /\ vecA \in Vector3Set
    /\ quatA \in RotateQuaternions
    /\ vecB = Unused /\ vecC = Unused /\ quatB = Unused /\ mat = Unused
    /\ num = NoNum /\ out = Unused /\ err = ""
    /\ scale = Unused /\ rot = Unused /\ trans = Unused

\* Transform(v, q)
CallVector3TransformByQuaternion ==
    /\ op = "none"
    /\ op' = "Vector3::Transform(v, q)"
    /\ vecB' = Vector3_TransformQuaternion(vecA, quatA)
    /\ out' = vecB'
    /\ UNCHANGED <<vecA, vecC, quatA, quatB, mat, num, err, scale, rot, trans>>

\* Transform(v, CreateFromQuaternion(q))
CallVector3TransformByRotationMatrix ==
    /\ op = "Vector3::Transform(v, q)"
    /\ op' = "Vector3::Transform(v, CreateFromQuaternion(q))"
    /\ mat' = Matrix_CreateFromQuaternion(quatA)
    /\ vecC' = Vector3_TransformMatrix(vecA, mat')
    /\ out' = vecC'
    /\ UNCHANGED <<vecA, vecB, quatA, quatB, num, err, scale, rot, trans>>

\* TransformNormal(v, CreateFromQuaternion(q))
CallVector3TransformNormalByRotationMatrix ==
    /\ op = "Vector3::Transform(v, CreateFromQuaternion(q))"
    /\ op' = "Vector3::TransformNormal(v, CreateFromQuaternion(q))"
    /\ out' = Vector3_TransformNormal(vecA, Matrix_CreateFromQuaternion(quatA))
    /\ UNCHANGED <<vecA, vecB, vecC, quatA, quatB, mat, num, err, scale, rot, trans>>

NextRotate ==
    \/ CallVector3TransformByQuaternion
    \/ CallVector3TransformByRotationMatrix
    \/ CallVector3TransformNormalByRotationMatrix

SpecRotate == InitRotate /\ [][NextRotate]_vars

\* C29: for every unit quaternion q and every Vector3 v, Transform(v, q),
\* Transform(v, CreateFromQuaternion(q)) and
\* TransformNormal(v, CreateFromQuaternion(q)) are the same vector.
C29_QuaternionAndMatrixRotationAgree ==
    /\ op = "Vector3::Transform(v, CreateFromQuaternion(q))" => vecC = vecB
    /\ op = "Vector3::TransformNormal(v, CreateFromQuaternion(q))" =>
          out = vecB /\ out = vecC

-----------------------------------------------------------------------------
(* CreateConstrainedBillboard. *)

\* an optional argument that was not provided
NullPtr == <<>>

\* float minDist = 0.0001f * 0.0001f
BillboardMinDist == F(1) // F(100000000)

\* the 0.998f the dot products are compared with
BillboardParallelLimit == F(499) // F(500)

\* camToObj once the distance test has been made
ConstrainedBillboard_CamToObj(objectPos, cameraPos, cameraForward) ==
    LET camToObj == Vector3_Sub(objectPos, cameraPos)
    IN  IF FLt(Vector3_LengthSquared(camToObj), BillboardMinDist)
        THEN IF cameraForward # NullPtr THEN Vector3_Neg(cameraForward)
             ELSE Vector3_Forward
        ELSE camToObj

\* zBasis as it is crossed with yBasis: camToObj, objectForward or a default
ConstrainedBillboard_Forward(rotAxis, camToObj, objectForward) ==
    LET dot0 == FAbs(Vector3_Dot(rotAxis, camToObj))
        useObjectForward == FGt(dot0, BillboardParallelLimit) /\ objectForward # NullPtr
        zBasis1 == IF useObjectForward THEN objectForward ELSE camToObj
        dot1 == IF useObjectForward THEN FAbs(Vector3_Dot(rotAxis, zBasis1)) ELSE dot0
    IN  IF FGt(dot1, BillboardParallelLimit)
        THEN IF FGt(FAbs(Vector3_Dot(rotAxis, Vector3_Forward)), BillboardParallelLimit)
             THEN Vector3_Right
             ELSE Vector3_Forward
        ELSE zBasis1

Matrix_CreateConstrainedBillboard(objectPos, cameraPos, rotAxis, cameraForward, objectForward) ==
    LET camToObj == ConstrainedBillboard_CamToObj(objectPos, cameraPos, cameraForward)
        yBasis == Vector3_Normalize(rotAxis)
        zBasis0 == ConstrainedBillboard_Forward(rotAxis, camToObj, objectForward)
        xBasis == Vector3_Normalize(Vector3_Cross(yBasis, zBasis0))
        zBasis == Vector3_Normalize(Vector3_Cross(xBasis, yBasis))
    IN  Matrix(xBasis.X, xBasis.Y, xBasis.Z, F(0),
               rotAxis.X, rotAxis.Y, rotAxis.Z, F(0),
               zBasis.X, zBasis.Y, zBasis.Z, F(0),
               objectPos.X, objectPos.Y, objectPos.Z, F(1))

\* distances from the camera: zero, below the threshold, and above it on
\* either side of 1
BillboardDistances == {F(0), F(1) // F(20000), F(1) // F(2), F(1), F(3)}

\* the directions from the camera; the oblique one is not taken at the
\* distance below the threshold, whose square has no 32-bit denominator
BillboardOffsets ==
    {Vector3_Scale(dir, d) : dir \in AxisDirections, d \in BillboardDistances}
    \cup {Vector3_Scale(Vector3(F(3) // F(5), F(4) // F(5), F(0)), d) :
             d \in {d \in BillboardDistances : FGe(d, F(1) // F(2))}}

\* vecA is objectPos, vecB cameraPos, vecC the unit rotAxis; num holds the two
\* optional vectors; trans shows the forward vector crossed with the axis
InitBillboard ==
    /\ op = "none"
    /\ vecB \in {Origin, Vector3(F(1), F(-2), F(0))}
    /\ \E offset \in BillboardOffsets : vecA = Vector3_Add(vecB, offset)
    /\ vecC \in {Vector3_UnitX, Vector3_UnitY, Vector3_UnitZ}
    /\ num \in [cameraForward : {NullPtr, Vector3_Forward, Vector3_UnitY},
                objectForward : {NullPtr, Vector3_UnitX, Vector3_UnitY}]
    /\ quatA = Unused /\ quatB = Unused /\ mat = Unused
    /\ out = Unused /\ err = ""
    /\ scale = Unused /\ rot = Unused /\ trans = Unused

CallMatrixCreateConstrainedBillboard ==
    /\ op = "none"
    /\ op' = "Matrix::CreateConstrainedBillboard"
    /\ out' = Matrix_CreateConstrainedBillboard(vecA, vecB, vecC, num.cameraForward, num.objectForward)
    /\ trans' = ConstrainedBillboard_Forward(vecC,
                    ConstrainedBillboard_CamToObj(vecA, vecB, num.cameraForward),
                    num.objectForward)
    /\ UNCHANGED <<vecA, vecB, vecC, quatA, quatB, mat, num, err, scale, rot>>

NextBillboard == CallMatrixCreateConstrainedBillboard

SpecBillboard == InitBillboard /\ [][NextBillboard]_vars

\* a and b point along one line, or one of them is zero
Parallel(a, b) == Vector3_Cross(a, b) = Origin

\* the square of the distance from the camera to the object
BillboardDistanceSquared ==
    LET d == Vector3(vecA.X -- vecB.X, vecA.Y -- vecB.Y, vecA.Z -- vecB.Z)
    IN  (d.X ** d.X) ++ (d.Y ** d.Y) ++ (d.Z ** d.Z)

\* some entry of m is NaN
HasNaN(m) == \E c \in DOMAIN m : ~IsSym(m[c]) /\ FIsNaN(m[c])

\* C30: with a unit rotAxis, CreateConstrainedBillboard replaces the forward
\* vector whenever the camera-to-object direction is parallel to rotAxis, at
\* every distance above the near-zero threshold, so that the forward vector
\* crossed with rotAxis is never parallel to it and no zero-length vector is
\* normalised; below the threshold the forward vector is -cameraForward if
\* provided, otherwise Vector3::Forward.
C30_BillboardNeverCrossesParallel ==
    op = "Matrix::CreateConstrainedBillboard" =>
        /\ ~Parallel(vecC, trans)
        /\ ~HasNaN(out)
        /\ FLt(BillboardDistanceSquared, BillboardMinDist) =>
              ConstrainedBillboard_CamToObj(vecA, vecB, num.cameraForward)
                  = IF num.cameraForward # NullPtr THEN Vector3_Neg(num.cameraForward)
                    ELSE Vector3_Forward

=============================================================================
